---- MODULE Spec2Model ----
(***************************************************************************)
(* Epoch-driven reward pipeline of the Oceans subnet validator:            *)
(*   VoteFetcher.fetch_and_store      (validator/vote_fetcher.py)          *)
(*   LiquidityFetcher.fetch_and_store (validator/liquidity_fetcher.py)     *)
(*   RewardCalculator.compute         (validator/rewards.py)               *)
(*   StateCache and the two snapshot tables (validator/state_cache.py,     *)
(*   storage/models.py)                                                    *)
(*                                                                         *)
(* Python floats are modelled as exact rationals <<n, d>> in lowest terms  *)
(* with d > 0; a Python dict is a function with a finite domain, the       *)
(* empty dict is the empty function <<>>; a Python list is a sequence.     *)
(* An object is a record whose domain is the set of attributes it has.     *)
(***************************************************************************)
EXTENDS Integers, Sequences, FiniteSets, TLC

VARIABLES
    voteStore,    \* table vote_snapshots, rows in insertion (id) order
    liqStore,     \* table liquidity_snapshots, rows in insertion (id) order
    cache,        \* attributes set on the StateCache object
    ckUidCache,   \* LiquidityFetcher._ck_uid_cache
    apiVotes,     \* what VoteAPIClient.get_latest_votes() currently returns
    chain,        \* liquidity positions and metagraphs the chain currently reports
    client,       \* the VoteAPIClient: base_url, _offline, whether _client exists
    neuron,       \* the EpochValidatorNeuron: metagraph, epoch fields, place in run()
    head,         \* the current block of the chain
    fetch,        \* the running call of fetch_subnet_liquidity_positions, if any
    last          \* the last completed call: operation, inputs, outcome

vars ==
    <<voteStore, liqStore, cache, ckUidCache, apiVotes, chain, client, neuron,
      head, fetch, last>>

----------------------------------------------------------------------------
(* Bounds of the model *)

\* longest list of votes (fetched from the API, or held in cache.latest_votes)
MaxVotes == 2

\* rows per snapshot table
MaxRows == 3

----------------------------------------------------------------------------
(* Exact rational arithmetic standing for float arithmetic *)

RECURSIVE GCD(_, _)
GCD(a, b) == IF b = 0 THEN a ELSE GCD(b, a % b)

Abs(n) == IF n < 0 THEN -n ELSE n

\* the rational n/d (d # 0) in lowest terms with a positive denominator
Rat(n, d) ==
    LET g == GCD(Abs(n), Abs(d))
        s == IF d < 0 THEN -1 ELSE 1
    IN  <<(s * n) \div g, (s * d) \div g>>

Zero == <<0, 1>>
One  == <<1, 1>>
Int2Rat(n) == <<n, 1>>

RAdd(a, b) == Rat(a[1] * b[2] + b[1] * a[2], a[2] * b[2])
RMul(a, b) == Rat(a[1] * b[1], a[2] * b[2])
RDiv(a, b) == Rat(a[1] * b[2], a[2] * b[1])
RInv(a)    == Rat(a[2], a[1])
RLe(a, b)  == a[1] * b[2] <= b[1] * a[2]
RLt(a, b)  == a[1] * b[2] < b[1] * a[2]
RPos(a)    == a[1] > 0

\* sum(d.values()) of a dict d of rationals
RECURSIVE SumOver(_, _)
SumOver(d, S) ==
    IF S = {} THEN Zero
    ELSE LET k == CHOOSE x \in S : TRUE
         IN  RAdd(d[k], SumOver(d, S \ {k}))

SumValues(d) == SumOver(d, DOMAIN d)

EmptyDict == <<>>

----------------------------------------------------------------------------
(* Python attribute access on objects modelled as records *)

HasAttr(obj, name) == name \in DOMAIN obj

\* getattr(obj, name, default)
GetAttr(obj, name, default) == IF HasAttr(obj, name) THEN obj[name] ELSE default

\* obj.name = value
SetAttr(obj, name, value) ==
    [a \in (DOMAIN obj) \cup {name} |-> IF a = name THEN value ELSE obj[a]]

----------------------------------------------------------------------------
(* RewardCalculator (validator/rewards.py) *)

\* A key of an inner liquidity dict is an integer uid, or a key that int()
\* rejects (a coldkey string); the latter is encoded as NonUidKey.
NonUidKey == -1

\* int(key) succeeds
IntConvertible(key) == key # NonUidKey

\* float(getattr(vs, "voter_stake", 0.0))
StakeOf(vs) == GetAttr(vs, "voter_stake", Zero)

\* getattr(vs, "weights", {}) or {}
WeightsOf(vs) == GetAttr(vs, "weights", EmptyDict)

\* the vote passes both `continue` guards of the loop
CountsForMaster(vs) ==
    /\ RPos(StakeOf(vs))
    /\ DOMAIN WeightsOf(vs) # {}
    /\ RPos(SumValues(WeightsOf(vs)))

\* raw[sid] after the loop has handled votes[1..n]
RECURSIVE MasterRaw(_, _, _)
MasterRaw(votes, sid, n) ==
    IF n = 0 THEN Zero
    ELSE LET vs == votes[n]
             w  == WeightsOf(vs)
         IN  IF CountsForMaster(vs) /\ sid \in DOMAIN w
             THEN RAdd(MasterRaw(votes, sid, n - 1),
                       RMul(StakeOf(vs), RDiv(w[sid], SumValues(w))))
             ELSE MasterRaw(votes, sid, n - 1)

\* total_stake after the loop has handled votes[1..n]
RECURSIVE MasterTotalStake(_, _)
MasterTotalStake(votes, n) ==
    IF n = 0 THEN Zero
    ELSE IF CountsForMaster(votes[n])
         THEN RAdd(MasterTotalStake(votes, n - 1), StakeOf(votes[n]))
         ELSE MasterTotalStake(votes, n - 1)

\* cache.latest_votes is the bound method StateCache.latest_votes until an
\* instance attribute of that name is assigned
LatestVotesIsMethod(c) ==
    ~HasAttr(c, "latest_votes") /\ GetAttr(c, "class", "") = "StateCache"

\* RewardCalculator._build_master_vector: the vector returned and the cache
\* after the call; raised when iterating the bound method fails
RewardCalculator_build_master_vector(c) ==
    IF LatestVotesIsMethod(c)
    THEN [raised |-> TRUE, ret |-> EmptyDict, cache |-> c]
    ELSE
    LET votes == GetAttr(c, "latest_votes", <<>>)
    IN  IF votes = <<>>
        THEN [raised |-> FALSE,
              ret    |-> GetAttr(c, "subnet_weights", EmptyDict),
              cache  |-> c]
        ELSE
        LET n     == Len(votes)
            sids  == UNION {DOMAIN WeightsOf(votes[i]) :
                               i \in {j \in 1..n : CountsForMaster(votes[j])}}
            total == MasterTotalStake(votes, n)
            master == [sid \in sids |-> RDiv(MasterRaw(votes, sid, n), total)]
        IN  IF ~RPos(total)
            THEN [raised |-> FALSE, ret |-> EmptyDict, cache |-> c]
            ELSE [raised |-> FALSE,
                  ret    |-> master,
                  cache  |-> SetAttr(c, "master_subnet_weights", master)]

\* the set of elements of a list
Range(seq) == {seq[i] : i \in 1..Len(seq)}

\* bug variant: the share of a subnet is not scaled by its master weight
RewardAccumulator_IgnoresMasterWeight(master, liquidity) ==
    LET LpByKey(s) == IF s \in DOMAIN liquidity THEN liquidity[s] ELSE EmptyDict
        Paying  == {s \in DOMAIN master :
                       RPos(master[s]) /\ RPos(SumValues(LpByKey(s)))}
        Contrib(s, key) == RMul(LpByKey(s)[key], RInv(SumValues(LpByKey(s))))
        Adds == {e \in UNION {{<<s, key>> : key \in DOMAIN LpByKey(s)} : s \in Paying} :
                    IntConvertible(e[2]) /\ RPos(Contrib(e[1], e[2]))}
    IN  [uid \in {e[2] : e \in Adds} |->
            SumValues([e \in {x \in Adds : x[2] = uid} |-> Contrib(e[1], e[2])])]

\* the reward accumulator `rewards` after the loop over master_w (step 3)
RewardAccumulator(master, liquidity) ==
    LET LpByKey(s) == IF s \in DOMAIN liquidity THEN liquidity[s] ELSE EmptyDict
        Paying  == {s \in DOMAIN master :
                       RPos(master[s]) /\ RPos(SumValues(LpByKey(s)))}
        Contrib(s, key) ==
            RMul(RMul(LpByKey(s)[key], RInv(SumValues(LpByKey(s)))), master[s])
        Adds == {e \in UNION {{<<s, key>> : key \in DOMAIN LpByKey(s)} : s \in Paying} :
                    IntConvertible(e[2]) /\ RPos(Contrib(e[1], e[2]))}
    IN  [uid \in {e[2] : e \in Adds} |->
            SumValues([e \in {x \in Adds : x[2] = uid} |-> Contrib(e[1], e[2])])]

\* bug variant: the accumulator is returned without normalisation
NormaliseRewards_NotNormalised(rewards, uids) ==
    IF RPos(SumValues(rewards))
    THEN rewards
    ELSE [uid \in Range(uids) |-> RInv(Int2Rat(Len(uids)))]

\* bug variant: a zero accumulator is returned as it is (no uniform fallback)
NormaliseRewards_NoFallback(rewards, uids) ==
    IF RPos(SumValues(rewards))
    THEN [uid \in DOMAIN rewards |-> RMul(rewards[uid], RInv(SumValues(rewards)))]
    ELSE rewards

\* step 4: normalise the accumulator, or fall back to the uniform vector
NormaliseRewards(rewards, uids) ==
    LET total_reward == SumValues(rewards)
    IN  IF RPos(total_reward)
        THEN [uid \in DOMAIN rewards |-> RMul(rewards[uid], RInv(total_reward))]
        ELSE [uid \in Range(uids) |-> RInv(Int2Rat(Len(uids)))]

\* bug variant: no `total_lp <= 0` guard, so a subnet with positive master
\* weight and no liquidity makes 1.0 / total_lp raise ZeroDivisionError
RewardCalculator_compute_NoZeroLpGuard(c, uids) ==
    IF uids = <<>>
    THEN [raised |-> FALSE, ret |-> EmptyDict, cache |-> c]
    ELSE
    LET mv  == RewardCalculator_build_master_vector(c)
        liq == GetAttr(mv.cache, "liquidity", EmptyDict)
        Lp(s) == IF s \in DOMAIN liq THEN liq[s] ELSE EmptyDict
    IN  IF mv.raised \/ \E s \in DOMAIN mv.ret :
                            RPos(mv.ret[s]) /\ SumValues(Lp(s)) = Zero
        THEN [raised |-> TRUE, ret |-> EmptyDict, cache |-> c]
        ELSE [raised |-> FALSE,
              ret    |-> NormaliseRewards(RewardAccumulator(mv.ret, liq), uids),
              cache  |-> mv.cache]

\* RewardCalculator.compute(metagraph): outcome and cache after the call
RewardCalculator_compute(c, uids) ==
    IF uids = <<>>
    THEN [raised |-> FALSE, ret |-> EmptyDict, cache |-> c]
    ELSE
    LET mv == RewardCalculator_build_master_vector(c)
    IN  IF mv.raised
        THEN [raised |-> TRUE, ret |-> EmptyDict, cache |-> c]
        ELSE [raised |-> FALSE,
              ret    |-> NormaliseRewards(
                            RewardAccumulator(
                                mv.ret, GetAttr(mv.cache, "liquidity", EmptyDict)),
                            uids),
              cache  |-> mv.cache]

----------------------------------------------------------------------------
(* Snapshot tables (storage/models.py) and StateCache (validator/state_cache.py) *)

\* mapped attributes of the ORM classes
VoteSnapshotColumns == {"id", "block_height", "voter_hotkey", "weights", "ts"}
LiquiditySnapshotColumns ==
    {"id", "wallet_hotkey", "subnet_id", "usd_value", "block_height", "ts"}

\* The declarative constructor accepts only keyword arguments that name an
\* attribute of the class; any other keyword raises TypeError.
ConstructorAccepts(columns, kwargs) == DOMAIN kwargs \subseteq columns

\* bulk insert: rows appended in order, primary keys assigned in sequence
\* (ts is not modelled)
RECURSIVE BulkSave(_, _)
BulkSave(table, snapshots) ==
    IF snapshots = <<>> THEN table
    ELSE BulkSave(Append(table, SetAttr(Head(snapshots), "id", Len(table) + 1)),
                  Tail(snapshots))

\* bug variant: every (hotkey, height) pair is reported as new
StateCache_votes_changed_AlwaysNew(table, new_block_height, voter_hotkey) == TRUE

\* bug variant: a row of the voter at any block height counts as a match
StateCache_votes_changed_AnyHeight(table, new_block_height, voter_hotkey) ==
    ~\E i \in 1..Len(table) : table[i].voter_hotkey = voter_hotkey

\* StateCache.votes_changed: no row with that (voter_hotkey, block_height)
StateCache_votes_changed(table, new_block_height, voter_hotkey) ==
    ~\E i \in 1..Len(table) :
        /\ table[i].voter_hotkey = voter_hotkey
        /\ table[i].block_height = new_block_height

\* StateCache.persist_votes / persist_liquidity
StateCache_persist(table, snapshots) ==
    IF snapshots = <<>> THEN table ELSE BulkSave(table, snapshots)

\* str(k) of an integer dict key.  TLC cannot compare a string with an
\* integer, so the text of the key k >= 0 is coded as -(k + 2): keys below
\* zero are strings, keys from zero on are integers.
PyStr(k) == -(k + 2)

\* json.dumps writes every key of an object as a string; json.loads reads
\* the keys back as strings
JsonKey(k) == IF k >= 0 THEN PyStr(k) ELSE k
JsonRoundTrip(d) ==
    [s \in {JsonKey(k) : k \in DOMAIN d} |->
        d[CHOOSE k \in DOMAIN d : JsonKey(k) = s]]

\* a row as the query loads it: the JSON column `weights` of vote_snapshots
\* went through json.dumps on insert and json.loads on load
LoadRow(row) ==
    IF HasAttr(row, "weights")
    THEN SetAttr(row, "weights", JsonRoundTrip(row.weights))
    ELSE row

\* ORDER BY block_height DESC, id DESC
SortsBefore(a, b) ==
    \/ a.block_height > b.block_height
    \/ a.block_height = b.block_height /\ a.id > b.id

RECURSIVE OrderByHeightIdDesc(_)
OrderByHeightIdDesc(rows) ==
    IF rows = {} THEN <<>>
    ELSE LET first == CHOOSE r \in rows : \A q \in rows \ {r} : SortsBefore(r, q)
         IN  <<first>> \o OrderByHeightIdDesc(rows \ {first})

\* bug variant: the rows are returned in insertion order
StateCache_latest_Unordered(table) == [i \in 1..Len(table) |-> LoadRow(table[i])]

\* StateCache.latest_votes / latest_liquidity: every row of the table
StateCache_latest(table) ==
    OrderByHeightIdDesc({LoadRow(table[i]) : i \in 1..Len(table)})

----------------------------------------------------------------------------
(* VoteFetcher (validator/vote_fetcher.py) *)

\* VoteFetcher._flatten_vote: the (subnet_id, weight) pairs of a vote, as a
\* dict; the legacy row shape is used only when .weights is missing or empty
VoteFetcher_flatten_vote(v) ==
    IF DOMAIN GetAttr(v, "weights", EmptyDict) # {}
    THEN v.weights
    ELSE IF HasAttr(v, "subnet_id") /\ HasAttr(v, "weight")
         THEN [sid \in {v.subnet_id} |-> v.weight]
         ELSE EmptyDict

\* raw_weights[sid] after the aggregation loop has handled votes[1..n]
RECURSIVE RawWeight(_, _, _)
RawWeight(votes, sid, n) ==
    IF n = 0 THEN Zero
    ELSE LET w == VoteFetcher_flatten_vote(votes[n])
         IN  IF sid \in DOMAIN w
             THEN RAdd(RawWeight(votes, sid, n - 1), w[sid])
             ELSE RawWeight(votes, sid, n - 1)

\* raw_weights after step 2
RawWeights(votes) ==
    [sid \in UNION {DOMAIN VoteFetcher_flatten_vote(votes[i]) : i \in 1..Len(votes)}
        |-> RawWeight(votes, sid, Len(votes))]

\* step 3: normalise so that the weights sum to 1, or publish nothing
NormaliseWeights(raw) ==
    IF RPos(SumValues(raw))
    THEN [sid \in DOMAIN raw |-> RDiv(raw[sid], SumValues(raw))]
    ELSE EmptyDict

\* step 5: one VoteSnapshot per fetched vote whose key is not in the table
RECURSIVE NewVoteSnapshots(_, _, _)
NewVoteSnapshots(table, votes, n) ==
    IF n = 0 THEN <<>>
    ELSE LET v == votes[n]
             rest == NewVoteSnapshots(table, votes, n - 1)
         IN  IF StateCache_votes_changed(table, v.block_height, v.voter_hotkey)
             THEN Append(rest, [voter_hotkey |-> v.voter_hotkey,
                                block_height |-> v.block_height,
                                weights      |-> v.weights])
             ELSE rest

\* bug variant: the call answers {} and leaves the cache as it was
VoteFetch_KeepsPublishedWeights ==
    /\ last' = [op |-> "vote", votes |-> apiVotes, raised |-> FALSE,
                ret |-> EmptyDict, persisted |-> <<>>]
    /\ UNCHANGED <<voteStore, liqStore, cache, ckUidCache, apiVotes, chain, client, neuron, head, fetch>>

\* VoteFetcher.fetch_and_store on the fetched votes: the vote table and the
\* cache after the call, its outcome and the snapshots handed to persist_votes
VoteFetcher_fetch_and_store(votes, table, c) ==
    IF votes = <<>>
    THEN [table |-> table, cache |-> SetAttr(c, "subnet_weights", EmptyDict),
          raised |-> FALSE, ret |-> EmptyDict, persisted |-> <<>>]
    ELSE
    LET weights   == NormaliseWeights(RawWeights(votes))
        snapshots == NewVoteSnapshots(table, votes, Len(votes))
    IN  IF \E i \in 1..Len(snapshots) :
              ~ConstructorAccepts(VoteSnapshotColumns, snapshots[i])
        THEN \* TypeError leaves step 5 after step 4 has published
             [table |-> table, cache |-> SetAttr(c, "subnet_weights", weights),
              raised |-> TRUE, ret |-> EmptyDict, persisted |-> <<>>]
        ELSE [table |-> StateCache_persist(table, snapshots),
              cache |-> SetAttr(SetAttr(c, "subnet_weights", weights),
                                "latest_votes", snapshots),
              raised |-> FALSE, ret |-> weights, persisted |-> snapshots]

\* VoteFetcher.fetch_and_store with the votes the API serves
VoteFetch ==
    LET r == VoteFetcher_fetch_and_store(apiVotes, voteStore, cache)
    IN  /\ voteStore' = r.table
        /\ cache' = r.cache
        /\ last' = [op |-> "vote", votes |-> apiVotes, raised |-> r.raised,
                    ret |-> r.ret, persisted |-> r.persisted]
        /\ UNCHANGED <<liqStore, ckUidCache, apiVotes, chain, client, neuron, head, fetch>>

----------------------------------------------------------------------------
(* LiquidityFetcher (validator/liquidity_fetcher.py) *)

\* An Optional[int] is a set with at most one element: {} is None.
None == {}
Some(x) == {x}
TheValue(opt) == CHOOSE x \in opt : TRUE

\* fetch_fn(netuid=..., block=...): one LiquiditySubnet per target subnet,
\* [netuid, coldkey_positions], coldkey_positions a list of
\* [coldkey, positions] in dict order, positions a list of TAO amounts
FetchFn(ch, netuid) ==
    IF netuid = None
    THEN ch.liquidity
    ELSE SelectSeq(ch.liquidity, LAMBDA ls : ls.netuid \in netuid)

\* sum(_balance_to_tao(p.liquidity) for p in positions)
RECURSIVE TaoTotal(_)
TaoTotal(positions) ==
    IF positions = <<>> THEN Zero
    ELSE RAdd(Head(positions), TaoTotal(Tail(positions)))

\* the (coldkey, subnet) pairs of the fetched subnets, in dict order of
\* `aggregated`: a later LiquiditySubnet with the same netuid overwrites the
\* value of an earlier one and keeps its place
RECURSIVE AggregatedEntries(_)
AggregatedEntries(subnets) ==
    IF subnets = <<>> THEN <<>>
    ELSE LET ls   == subnets[Len(subnets)]
             rest == AggregatedEntries(SubSeq(subnets, 1, Len(subnets) - 1))
             mine == [i \in 1..Len(ls.coldkey_positions) |->
                        [ck     |-> ls.coldkey_positions[i].coldkey,
                         subnet |-> ls.netuid,
                         tao    |-> TaoTotal(ls.coldkey_positions[i].positions)]]
             Same(a, b) == a.ck = b.ck /\ a.subnet = b.subnet
             upd  == [i \in 1..Len(rest) |->
                        IF \E j \in 1..Len(mine) : Same(mine[j], rest[i])
                        THEN mine[CHOOSE j \in 1..Len(mine) : Same(mine[j], rest[i])]
                        ELSE rest[i]]
         IN  upd \o SelectSeq(mine, LAMBDA m :
                                ~\E i \in 1..Len(rest) : Same(m, rest[i]))

\* LiquidityFetcher._exists
LiquidityFetcher_exists(table, wallet, subnet, block_height) ==
    \E i \in 1..Len(table) :
        /\ table[i].wallet_hotkey = wallet
        /\ table[i].subnet_id = subnet
        /\ table[i].block_height = block_height

\* step 4: the keyword arguments of one LiquiditySnapshot(...) per entry
\* with tao_total > 0 whose (coldkey, subnet, block) is not in the table
NewLiquiditySnapshots(table, entries, blk) ==
    LET fresh == SelectSeq(entries, LAMBDA e :
                    RPos(e.tao) /\ ~LiquidityFetcher_exists(table, e.ck, e.subnet, blk))
    IN  [i \in 1..Len(fresh) |->
            [wallet_hotkey |-> fresh[i].ck,
             subnet_id     |-> fresh[i].subnet,
             tao_value     |-> fresh[i].tao,
             block_height  |-> blk]]

\* get_metagraph(subnet, lite=True, block=...) of utils.subnet_utils:
\* the uid and coldkey lists of the subnet, or a failure
GetMetagraph(ch, subnet) ==
    IF subnet \in DOMAIN ch.metagraphs
    THEN ch.metagraphs[subnet]
    ELSE [ok |-> FALSE, uids |-> <<>>, coldkeys |-> <<>>]

\* LiquidityFetcher._populate_uid_cache: the uid cache after the call
LiquidityFetcher_populate_uid_cache(uidCache, ch, subnets) ==
    LET pairs   == UNION {{<<subnets[i].coldkey_positions[j].coldkey, subnets[i].netuid>> :
                              j \in 1..Len(subnets[i].coldkey_positions)} :
                          i \in 1..Len(subnets)}
        needed  == pairs \ DOMAIN uidCache
        Found(p) == LET mg == GetMetagraph(ch, p[2])
                    IN  {i \in 1..Len(mg.uids) :
                            i <= Len(mg.coldkeys) /\ mg.coldkeys[i] = p[1]}
        \* a failed metagraph read maps the needed coldkeys to None; a
        \* coldkey that the metagraph does not list gets no entry
        added   == {p \in needed : ~GetMetagraph(ch, p[2]).ok \/ Found(p) # {}}
    IN  [p \in (DOMAIN uidCache) \cup added |->
            IF p \in DOMAIN uidCache THEN uidCache[p]
            ELSE IF ~GetMetagraph(ch, p[2]).ok THEN None
            ELSE LET i == CHOOSE i \in Found(p) : \A k \in Found(p) : k <= i
                 IN  Some(GetMetagraph(ch, p[2]).uids[i])]

\* step 5: liq_map[subnet][uid] = tao_val for the entries with tao > 0 whose
\* coldkey has a uid in the cache; a later entry overwrites an earlier one
LiquidityMap(uidCache, entries) ==
    LET Uid(e) == IF <<e.ck, e.subnet>> \in DOMAIN uidCache
                  THEN uidCache[<<e.ck, e.subnet>>] ELSE None
        kept == SelectSeq(entries, LAMBDA e : RPos(e.tao) /\ Uid(e) # None)
        Last(s, u) == CHOOSE i \in 1..Len(kept) :
                         /\ kept[i].subnet = s /\ Uid(kept[i]) = Some(u)
                         /\ \A k \in 1..Len(kept) :
                               (kept[k].subnet = s /\ Uid(kept[k]) = Some(u)) => k <= i
    IN  [s \in {kept[i].subnet : i \in 1..Len(kept)} |->
            [u \in {TheValue(Uid(kept[i])) : i \in {k \in 1..Len(kept) : kept[k].subnet = s}}
                |-> kept[Last(s, u)].tao]]

\* the subnets of a list of LiquiditySubnet objects, in order
NetuidsOf(subnets) == [i \in 1..Len(subnets) |-> subnets[i].netuid]

\* LiquidityFetcher.fetch_and_store(netuid=..., block=...) around the
\* outcome of self._fetch_fn: [raised, ret, queried], queried being the
\* subnets whose liquidity was asked of the chain
LiquidityFetchVia(fetched, netuid, block) ==
    LET args == [op |-> "liquidity", netuid |-> netuid, block |-> block]
    IN  IF netuid = Some(0)
        THEN \* netuid 0 never has user liquidity
             /\ last' = args @@ [raised |-> FALSE, ret |-> <<>>, queried |-> <<>>]
             /\ UNCHANGED <<voteStore, liqStore, cache, ckUidCache, apiVotes, chain, client, neuron, head, fetch>>
        ELSE IF fetched.raised
        THEN \* the exception of the fetch leaves fetch_and_store
             /\ last' = args @@ [raised |-> TRUE, ret |-> <<>>, queried |-> fetched.queried]
             /\ UNCHANGED <<voteStore, liqStore, cache, ckUidCache, apiVotes, chain, client, neuron, head, fetch>>
        ELSE
        LET subnets   == fetched.ret
            uidCache  == LiquidityFetcher_populate_uid_cache(ckUidCache, chain, subnets)
            blk       == IF block = None THEN 0 ELSE TheValue(block)
            entries   == AggregatedEntries(subnets)
            snapshots == NewLiquiditySnapshots(liqStore, entries, blk)
        IN  /\ ckUidCache' = uidCache
            /\ IF \E i \in 1..Len(snapshots) :
                     ~ConstructorAccepts(LiquiditySnapshotColumns, snapshots[i])
               THEN \* TypeError raised by LiquiditySnapshot(...) in step 4
                    /\ last' = args @@ [raised |-> TRUE, ret |-> <<>>,
                                        queried |-> fetched.queried]
                    /\ UNCHANGED <<liqStore, cache>>
               ELSE /\ liqStore' = StateCache_persist(liqStore, snapshots)
                    /\ cache' = SetAttr(cache, "liquidity",
                                        LiquidityMap(uidCache, entries))
                    /\ last' = args @@ [raised |-> FALSE, ret |-> snapshots,
                                        queried |-> fetched.queried]
            /\ UNCHANGED <<voteStore, apiVotes, chain, client, neuron, head, fetch>>

\* fetch_and_store of a fetcher built with an injected fetch_fn
LiquidityFetchCall(netuid, block) ==
    LiquidityFetchVia([raised |-> FALSE, ret |-> FetchFn(chain, netuid),
                       queried |-> NetuidsOf(FetchFn(chain, netuid))],
                      netuid, block)

----------------------------------------------------------------------------
(* VoteAPIClient (api/client.py) and its settings (config.py) *)

\* A Python str is the sequence of its characters.
LowerCase == <<"a", "b", "c", "d", "e", "f", "g", "h", "i", "j", "k", "l", "m",
               "n", "o", "p", "q", "r", "s", "t", "u", "v", "w", "x", "y", "z">>
UpperCase == <<"A", "B", "C", "D", "E", "F", "G", "H", "I", "J", "K", "L", "M",
               "N", "O", "P", "Q", "R", "S", "T", "U", "V", "W", "X", "Y", "Z">>

\* bug variant: the comparison with the sentinel is case-sensitive
Upper_KeepsCase(str) == str

\* str.upper()
Upper(str) ==
    [i \in 1..Len(str) |->
        IF \E k \in 1..Len(LowerCase) : LowerCase[k] = str[i]
        THEN UpperCase[CHOOSE k \in 1..Len(LowerCase) : LowerCase[k] = str[i]]
        ELSE str[i]]

\* str.rstrip("/")
RECURSIVE RStripSlash(_)
RStripSlash(str) ==
    IF str # <<>> /\ str[Len(str)] = "/"
    THEN RStripSlash(SubSeq(str, 1, Len(str) - 1))
    ELSE str

\* _OFFLINE_SENTINEL
OFFLINE_SENTINEL == <<"T", "O", "D", "O">>

\* the default of _Settings.VOTE_API_ENDPOINT
DefaultEndpoint ==
    <<"h", "t", "t", "p", "s", ":", "/", "/", "a", "p", "i", ".", "o", "c", "e",
      "a", "n", "s", "6", "6", ".", "c", "o", "m", "/", "v", "1">>

\* settings.VOTE_API_ENDPOINT: the environment variable, or the default
Settings_VOTE_API_ENDPOINT(env) ==
    IF env = None THEN DefaultEndpoint ELSE TheValue(env)

\* VoteAPIClient.__init__(base_url): `base_url or settings.VOTE_API_ENDPOINT`
\* takes the setting when base_url is None or empty; ctor keeps the
\* arguments of the construction
VoteAPIClient_init(base_url, env) ==
    LET given == base_url # None /\ TheValue(base_url) # <<>>
        url   == RStripSlash(IF given THEN TheValue(base_url)
                                      ELSE Settings_VOTE_API_ENDPOINT(env))
        off   == Upper(url) = OFFLINE_SENTINEL
    IN  [base_url    |-> url,
         offline     |-> off,
         http_client |-> ~off,
         ctor        |-> [base_url |-> base_url, env |-> env]]

\* VoteFetcher.__init__ without api_client, environment unset
DefaultClient == VoteAPIClient_init(None, None)

\* _TEMPORAL_VOTER_HOTKEYS
TEMPORAL_VOTER_HOTKEYS ==
    <<"5HdK1zyMbMoq1NM2sDL2Len9h2CsmBcVbrFthePccMN5R8jU",
      "5CdG8JDyzBPvXD1PM3ctdVmk3DbC52aTmYbQNezasVUXsn66",
      "5CsvRJXuR955WojnGMdok1hbhffZyB4N5ocrv82f3p5A2zVp",
      "5ExiuLNctkEUL5xMijujmAdhJGdzb5d6vxdzLdjpH3MLNovF">>

TEMPORAL_BLOCK_HEIGHT == 6073385
TEMPORAL_STAKE == One

INACTIVE_SUBNETS ==
    {15, 46, 67, 69, 74, 78, 82, 83, 95, 100,
     101, 104, 110, 112, 115, 116, 117, 118, 119, 120}

ENABLED_USER_LIQUIDITY == {10, 27, 36, 51, 73, 85, 87, 97, 102, 104, 106}

\* sorted(ENABLED_USER_LIQUIDITY), as the key set of the temporal weights
ACTIVE_SUBNETS == ENABLED_USER_LIQUIDITY

\* _SUBNET_WEIGHT = 1 / len(ACTIVE_SUBNETS)
SUBNET_WEIGHT == Rat(1, Cardinality(ACTIVE_SUBNETS))

\* _TEMPORAL_WEIGHTS
TEMPORAL_WEIGHTS == [i \in ACTIVE_SUBNETS |-> SUBNET_WEIGHT]

\* VoteAPIClient._generate_temporal_votes at the time `now`
VoteAPIClient_generate_temporal_votes(now) ==
    [k \in 1..Len(TEMPORAL_VOTER_HOTKEYS) |->
        [voter_hotkey |-> TEMPORAL_VOTER_HOTKEYS[k],
         block_height |-> TEMPORAL_BLOCK_HEIGHT,
         voter_stake  |-> TEMPORAL_STAKE,
         weights      |-> TEMPORAL_WEIGHTS,
         timestamp    |-> now]]

\* max_tries of the backoff decorator of get_latest_votes
max_tries == 5

\* what one GET /votes/latest can come to
HttpOutcomes == {"transport_error", "status_5xx", "status_4xx",
                 "not_a_list", "invalid_item", "ok"}

\* httpx.HTTPError covers transport errors and the HTTPStatusError that
\* raise_for_status() raises for every 4xx and 5xx response
IsHTTPError(outcome) == outcome \in {"transport_error", "status_5xx", "status_4xx"}

\* one run of the body of get_latest_votes under backoff.on_exception: the
\* tries-th attempt of the call, ending the call unless an httpx.HTTPError
\* was raised and fewer than max_tries attempts have been made
LatestVotesAttempt(tries, outcome, now) ==
    IF client.offline
    THEN [op |-> "get_latest_votes", requests |-> 0, outcome |-> "offline",
          done |-> TRUE, raised |-> FALSE,
          ret |-> VoteAPIClient_generate_temporal_votes(now)]
    ELSE [op |-> "get_latest_votes", requests |-> tries, outcome |-> outcome,
          done |-> ~IsHTTPError(outcome) \/ tries >= max_tries,
          raised |-> outcome # "ok",
          ret |-> IF outcome = "ok" THEN apiVotes ELSE <<>>]

\* a call of get_latest_votes is waiting for its next attempt
CallInProgress == last.op = "get_latest_votes" /\ ~last.done

----------------------------------------------------------------------------
(* forward (validator/forward.py) *)

\* boosted after step 3: np.zeros(num_uids), then boosted[uid] = score for
\* every uid of the reward mapping with 0 <= uid < num_uids; position p of
\* the sequence is index p - 1 of the array
BoostedRaw(uid_scores, num_uids) ==
    [p \in 1..num_uids |->
        IF (p - 1) \in DOMAIN uid_scores THEN uid_scores[p - 1] ELSE Zero]

RECURSIVE SumSeq(_)
SumSeq(seq) == IF seq = <<>> THEN Zero ELSE RAdd(Head(seq), SumSeq(Tail(seq)))

\* step 4: boosted /= total, or the uniform fill 1.0 / num_uids
BoostedNormalised(boosted) ==
    IF RPos(SumSeq(boosted))
    THEN [p \in 1..Len(boosted) |-> RDiv(boosted[p], SumSeq(boosted))]
    ELSE [p \in 1..Len(boosted) |-> RInv(Int2Rat(Len(boosted)))]

\* bug variant: a failed vote fetch is swallowed and the tick goes on with
\* the data already in the cache
Forward_run_SwallowsVoteError(api_ok, now) ==
    LET uids == neuron.metagraph
        rc   == RewardCalculator_compute(
                    IF LatestVotesIsMethod(cache)
                    THEN SetAttr(cache, "latest_votes", <<>>) ELSE cache, uids)
    IN  [stages |-> <<"vote_fetch_begin", "liquidity_fetch_called",
                      "compute_begin", "compute_end", "update_scores">>,
         raised |-> FALSE, table |-> voteStore, cache |-> rc.cache,
         handed |-> Some([scores |-> BoostedNormalised(BoostedRaw(rc.ret, Len(uids))),
                          uids   |-> uids])]

\* forward(neuron) when get_latest_votes answers (api_ok) or raises: the
\* stages it went through, in order, the vote table and the cache after
\* it, and the arrays handed to neuron.update_scores.  The call
\* neuron.liq_fetcher.fetch_and_store() is not awaited: it builds a
\* coroutine object and the body of the fetch never runs.
Forward_run(api_ok, now) ==
    LET uids  == neuron.metagraph
        votes == IF client.offline
                 THEN VoteAPIClient_generate_temporal_votes(now) ELSE apiVotes
        vf    == VoteFetcher_fetch_and_store(votes, voteStore, cache)
        rc    == RewardCalculator_compute(vf.cache, uids)
        Out(stages, raised, table, c, handed) ==
            [stages |-> stages, raised |-> raised, table |-> table,
             cache |-> c, handed |-> handed]
        s1 == <<"vote_fetch_begin">>
        s2 == s1 \o <<"vote_fetch_end", "liquidity_fetch_called">>
        s3 == s2 \o <<"compute_begin">>
        s4 == s3 \o <<"compute_end">>
    IN  IF ~client.offline /\ ~api_ok
        THEN Out(s1, TRUE, voteStore, cache, None)
        ELSE IF vf.raised
        THEN Out(s1, TRUE, vf.table, vf.cache, None)
        ELSE IF rc.raised
        THEN Out(s3, TRUE, vf.table, rc.cache, None)
        ELSE IF ~RPos(SumSeq(BoostedRaw(rc.ret, Len(uids)))) /\ Len(uids) = 0
        THEN \* 1.0 / num_uids raises ZeroDivisionError
             Out(s4, TRUE, vf.table, rc.cache, None)
        ELSE Out(s4 \o <<"update_scores">>, FALSE, vf.table, rc.cache,
                 Some([scores |-> BoostedNormalised(BoostedRaw(rc.ret, Len(uids))),
                       uids   |-> uids]))

----------------------------------------------------------------------------
(* EpochValidatorNeuron (neurons/neuron_validator.py, neurons/validator.py) *)

\* the answer of a chain RPC: a value (None when the RPC returns None), or
\* an exception
RpcOk(v) == [raised |-> FALSE, value |-> v]
RpcRaise == [raised |-> TRUE, value |-> None]

\* `self.subtensor.tempo(netuid) or 360`
DEFAULT_TEMPO == 360

\* bug variant: the derived length is stored without the {t, t+1} check
EpochValidatorNeuron_discover_epoch_length_Unchecked(tempo_ans, block_ans, next_ans) ==
    LET tempo == IF tempo_ans.value = None \/ tempo_ans.value = Some(0)
                 THEN DEFAULT_TEMPO ELSE TheValue(tempo_ans.value)
    IN  IF tempo_ans.raised
        THEN [raised |-> TRUE, length |-> 0]
        ELSE IF block_ans.raised \/ next_ans.raised \/ next_ans.value = None
        THEN [raised |-> FALSE, length |-> tempo + 1]
        ELSE [raised |-> FALSE,
              length |-> TheValue(next_ans.value)
                            - (TheValue(block_ans.value)
                                 - (TheValue(block_ans.value) % tempo))]

\* EpochValidatorNeuron._discover_epoch_length for the answers of the three
\* RPCs: the length stored in _epoch_len, or the exception of the tempo RPC,
\* which is read outside the try block
EpochValidatorNeuron_discover_epoch_length(tempo_ans, block_ans, next_ans) ==
    LET tempo == IF tempo_ans.value = None \/ tempo_ans.value = Some(0)
                 THEN DEFAULT_TEMPO ELSE TheValue(tempo_ans.value)
    IN  IF tempo_ans.raised
        THEN [raised |-> TRUE, length |-> 0]
        ELSE IF block_ans.raised \/ next_ans.raised \/ next_ans.value = None
        THEN [raised |-> FALSE, length |-> tempo + 1]
        ELSE LET h == TheValue(block_ans.value)
                 derived == TheValue(next_ans.value) - (h - (h % tempo))
             IN  [raised |-> FALSE,
                  length |-> IF derived \in {tempo, tempo + 1}
                             THEN derived ELSE tempo + 1]

\* `self._epoch_len or self._discover_epoch_length()`
EpochLenOrDiscover(n, rpc) ==
    IF n.epoch_len # None
    THEN [raised |-> FALSE, length |-> TheValue(n.epoch_len)]
    ELSE EpochValidatorNeuron_discover_epoch_length(rpc.tempo, rpc.probe_block, rpc.next)

\* EpochValidatorNeuron._epoch_snapshot: (blk, start, end, idx, ep_len) and
\* the neuron after the call, or the exception of an RPC
EpochValidatorNeuron_epoch_snapshot(n, rpc) ==
    LET len == EpochLenOrDiscover(n, rpc)
    IN  IF rpc.block.raised \/ len.raised
        THEN [raised |-> TRUE, neuron |-> n, blk |-> 0, start |-> 0,
              end |-> 0, idx |-> 0, ep_len |-> 0]
        ELSE LET blk   == TheValue(rpc.block.value)
                 L     == len.length
                 start == blk - (blk % L)
             IN  [raised |-> FALSE,
                  neuron |-> [n EXCEPT !.epoch_len = Some(L),
                                       !.epoch_end_block = Some(start + L - 1)],
                  blk |-> blk, start |-> start, end |-> start + L - 1,
                  idx |-> blk \div L, ep_len |-> L]

\* the epoch fields set from a snapshot in _loop
WithEpochFields(n, snap) ==
    [n EXCEPT !.epoch_start_block = Some(snap.start),
              !.epoch_end_block   = Some(snap.end),
              !.epoch_index       = Some(snap.idx),
              !.epoch_tempo       = Some(snap.ep_len)]

\* self.sync() followed by self.concurrent_forward(), which runs forward
\* once: the events of the try block and the result of forward, if it ran
SyncThenForward(sync_ok, fwd) ==
    IF ~sync_ok THEN <<"sync_raised">>
    ELSE IF fwd.raised THEN <<"sync", "forward_raised">>
    ELSE <<"sync", "forward">>

TryRaised(events) == events[Len(events)] \in {"sync_raised", "forward_raised"}

\* bug variant: the closing sync and the step increment follow the try
\* block instead of sitting in a finally clause, so a failure skips them
EpochTick_NoFinally(file, sync_ok, fwd, final_ok) ==
    LET try == SyncThenForward(sync_ok, fwd)
    IN  IF TryRaised(try)
        THEN [events |-> try, step_inc |-> 0]
        ELSE [events |-> try \o <<IF final_ok THEN "final_sync" ELSE "final_sync_raised">>,
              step_inc |-> 1]

\* the business logic of an epoch head (try / except Exception / finally):
\* the events in order and the increment of self.step
EpochTick(file, sync_ok, fwd, final_ok) ==
    LET try == SyncThenForward(sync_ok, fwd)
        handled == IF TryRaised(try) /\ file = "neuron_validator"
                   THEN try \o <<"sleep">> ELSE try
    IN  [events |-> handled \o <<IF final_ok THEN "final_sync" ELSE "final_sync_raised">>,
         step_inc |-> 1]

\* bug variant: the flag is set after the try block, whatever happened
BootstrapRun_FlagAlways(file, sync_ok, fwd) ==
    LET try == SyncThenForward(sync_ok, fwd)
    IN  [events |-> IF TryRaised(try) /\ file = "neuron_validator"
                    THEN try \o <<"sleep">> ELSE try,
         bootstrapped |-> TRUE]

\* the bootstrap branch of _loop: events and the value of _bootstrapped
\* after it; neurons/validator.py sets the flag whatever happened
BootstrapRun(file, sync_ok, fwd) ==
    LET try == SyncThenForward(sync_ok, fwd)
    IN  IF file = "neuron_validator"
        THEN [events |-> IF TryRaised(try) THEN try \o <<"sleep">> ELSE try,
              bootstrapped |-> ~TryRaised(try)]
        ELSE [events |-> try, bootstrapped |-> TRUE]

\* target_head of _wait_for_next_head
TargetHead(head_block, ep_len) == (head_block - (head_block % ep_len)) + ep_len

----------------------------------------------------------------------------
(* fetch_subnet_liquidity_positions (utils/liquidity_utils.py) *)

\* the subnet the coldkeys are loaded from
SOURCE_NETUID == 66

\* list(dict.fromkeys(keys)): the first occurrence of every key, in order
RECURSIVE DictFromKeys(_)
DictFromKeys(keys) ==
    IF keys = <<>> THEN <<>>
    ELSE LET rest == DictFromKeys(SubSeq(keys, 1, Len(keys) - 1))
             k    == keys[Len(keys)]
         IN  IF k \in Range(rest) THEN rest ELSE Append(rest, k)

\* sorted(S) for a set of integers
RECURSIVE Sorted(_)
Sorted(S) ==
    IF S = {} THEN <<>>
    ELSE LET m == CHOOSE x \in S : \A y \in S : x <= y
         IN  <<m>> \o Sorted(S \ {m})

\* list(range(count))
RangeList(count) == [i \in 1..count |-> i - 1]

\* _discover_subnets: get_subnets() sorted; else range(subnet_count); else
\* the blind scan 0..255 that stops at the first metagraph that fails
DiscoverSubnets(ch) ==
    IF ~ch.get_subnets.raised
    THEN Sorted(TheValue(ch.get_subnets.value))
    ELSE IF ch.subnet_count # None
    THEN RangeList(TheValue(ch.subnet_count))
    ELSE LET bad == {u \in 0..255 : ~GetMetagraph(ch, u).ok}
         IN  RangeList(IF bad = {} THEN 256
                       ELSE CHOOSE u \in bad : \A v \in bad : u <= v)

\* bug variant: a semaphore that never blocks
SemaphoreFree_Unbounded(value) == TRUE

\* asyncio.Semaphore: acquire() goes through while the value is positive
SemaphoreFree(value) == value > 0

\* _query_single_ck: the positions returned for one answer of
\* get_liquidity_list (`positions or []`, and [] when the query raised)
QueryResult(ans) ==
    IF ans.raised \/ ans.value = None THEN <<>> ELSE TheValue(ans.value)

\* bug variant: coldkeys without positions are left out of the result
LiquiditySubnetOf_DropsEmpty(uid, coldkeys, results) ==
    LET kept == SelectSeq(coldkeys, LAMBDA ck : results[ck] # <<>>)
    IN  [netuid |-> uid,
         coldkey_positions |->
            [i \in 1..Len(kept) |->
                [coldkey |-> kept[i], positions |-> results[kept[i]]]]]

\* LiquiditySubnet(uid, {ck: pos for ck, pos in results}), in task order
LiquiditySubnetOf(uid, coldkeys, results) ==
    [netuid |-> uid,
     coldkey_positions |->
        [i \in 1..Len(coldkeys) |->
            [coldkey |-> coldkeys[i], positions |-> results[coldkeys[i]]]]]

\* the tasks of _query_single_subnet before any of them has run, with a
\* new semaphore
FreshTasks(f) ==
    [f EXCEPT !.task = [ck \in Range(f.src_coldkeys) |-> "pending"],
              !.results = [ck \in Range(f.src_coldkeys) |-> <<>>],
              !.value = f.max_concurrency]

\* fetch_subnet_liquidity_positions up to the fan-out: the source coldkeys
\* and the targets, or the exception of the source metagraph
FetchStarted(ch, netuid, max_concurrency) ==
    LET mg  == GetMetagraph(ch, SOURCE_NETUID)
        src == DictFromKeys(mg.coldkeys)
    IN  IF ~mg.ok \/ src = <<>>
        THEN [pc |-> "raised", netuid |-> netuid]
        ELSE FreshTasks(
                 [pc |-> "running", netuid |-> netuid,
                  max_concurrency |-> max_concurrency,
                  src_coldkeys |-> src,
                  targets |-> IF netuid = None THEN DiscoverSubnets(ch)
                              ELSE <<TheValue(netuid)>>,
                  idx |-> 1, task |-> <<>>, results |-> <<>>, value |-> 0,
                  liquidity_subnets |-> <<>>,
                  started |-> {}, finished |-> {}])

\* fetch_subnet_liquidity_positions from call to return: the list of
\* LiquiditySubnet objects, one per target in order, or the exception
RECURSIVE QueriedSubnets(_, _, _)
QueriedSubnets(ch, coldkeys, targets) ==
    IF targets = <<>> THEN <<>>
    ELSE <<LiquiditySubnetOf(Head(targets), coldkeys,
               [ck \in Range(coldkeys) |-> QueryResult(ch.answers[<<Head(targets), ck>>])])>>
         \o QueriedSubnets(ch, coldkeys, Tail(targets))

fetch_subnet_liquidity_positions(ch, netuid) ==
    LET f == FetchStarted(ch, netuid, 1)
    IN  IF f.pc = "raised"
        THEN [raised |-> TRUE, ret |-> <<>>, queried |-> <<>>]
        ELSE [raised |-> FALSE,
              ret |-> QueriedSubnets(ch, f.src_coldkeys, f.targets),
              queried |-> f.targets]

\* LiquidityFetcher._default_fetch
LiquidityFetcher_default_fetch(ch, netuid) == fetch_subnet_liquidity_positions(ch, netuid)

\* the queries between `async with semaphore` and their return
InFlight(f) ==
    IF f.pc # "running" THEN {}
    ELSE {ck \in DOMAIN f.task : f.task[ck] = "in_flight"}

----------------------------------------------------------------------------
(* Input domains *)

\* subnet ids of the reward inputs
Subnets == {10, 11}

\* miner uids
Uids == {0, 1, 2}

\* metagraph.uids: uids of a metagraph are pairwise distinct
Metagraphs == {<<>>, <<0, 1, 2>>, <<1, 2>>}

LpAmounts == {Zero, Int2Rat(50), Int2Rat(100)}

LpKeySets == {Uids, {2, NonUidKey}}

\* inner dicts { uid_or_key -> lp_amount }
LpDicts == UNION {[K -> LpAmounts] : K \in LpKeySets}

\* cache.liquidity: subnet_id -> inner dict
LiquidityMaps == UNION {[S -> LpDicts] : S \in SUBSET Subnets}

Half == Rat(1, 2)

\* a few subnet-weight vectors, with and without zero entries
SomeSubnetWeights ==
    { EmptyDict,
      [s \in Subnets |-> Half],
      [s \in Subnets |-> IF s = 10 THEN One ELSE Zero],
      [s \in {11} |-> One] }

\* weights dicts of the objects held in cache.latest_votes
MasterWeightDicts ==
    {[s \in S |-> One] : S \in (SUBSET Subnets) \ {{}}} \cup {[s \in {10} |-> Zero]}

\* voter_stake values
Stakes == {Zero, One, Int2Rat(2)}

\* objects exposing .voter_stake and .weights
StakedVotes ==
    [voter_stake : Stakes, weights : MasterWeightDicts]

\* subnet ids voted on
VoteSubnets == {1, 2}

\* weights payloads of fetched votes: the Vote schema asks for a non-empty
\* dict of floats and puts no bound on the values
VoteWeightDicts ==
    { [s \in {1} |-> Rat(3, 10)],
      [s \in {1} |-> Rat(7, 10)],
      [s \in {1} |-> One],
      [s \in {2} |-> One],
      [s \in {1} |-> Zero],
      [s \in VoteSubnets |-> Zero],
      [s \in VoteSubnets |-> IF s = 1 THEN Rat(3, 10) ELSE Rat(7, 10)],
      [s \in VoteSubnets |-> IF s = 1 THEN Int2Rat(2) ELSE Int2Rat(-1)] }

\* votes that differ in stake and weights (one voter, one block)
WeightedVotes ==
    [voter_hotkey : {"hkA"}, block_height : {123},
     voter_stake : Stakes, weights : VoteWeightDicts]

\* votes that differ in their natural key (voter_hotkey, block_height)
KeyedVotes ==
    { [voter_hotkey |-> k[1], block_height |-> k[2],
       voter_stake |-> One, weights |-> [s \in {1} |-> One]] :
      k \in {<<"hkA", 123>>, <<"hkB", 123>>, <<"hkA", 124>>} }

\* a chain that reports no liquidity and no metagraph
EmptyChain == [liquidity |-> <<>>, metagraphs |-> EmptyDict]

\* {ck_Xa: 100 X, ck_Xb: 200 X} on the subnets X = 1, 2, 3, every coldkey
\* registered on its subnet
SyntheticChain ==
    [liquidity |->
        [x \in 1..3 |->
            [netuid |-> x,
             coldkey_positions |->
                <<[coldkey |-> <<"ck", x, "a">>, positions |-> <<Int2Rat(100 * x)>>],
                  [coldkey |-> <<"ck", x, "b">>, positions |-> <<Int2Rat(200 * x)>>]>>]],
     metagraphs |->
        [x \in 1..3 |->
            [ok |-> TRUE, uids |-> <<0, 1>>,
             coldkeys |-> <<<<"ck", x, "a">>, <<"ck", x, "b">>>>]]]

\* one subnet: a coldkey without positions, one with two positions that is
\* not registered, one with a zero position
SparseChain ==
    [liquidity |->
        <<[netuid |-> 1,
           coldkey_positions |->
              <<[coldkey |-> <<"ck", 1, "a">>, positions |-> <<>>],
                [coldkey |-> <<"ck", 1, "b">>, positions |-> <<Int2Rat(50), Int2Rat(50)>>],
                [coldkey |-> <<"ck", 1, "c">>, positions |-> <<Zero>>]>>]>>,
     metagraphs |->
        [x \in {1} |->
            [ok |-> TRUE, uids |-> <<0, 1>>,
             coldkeys |-> <<<<"ck", 1, "a">>, <<"ck", 1, "c">>>>]]]

\* no coldkey holds liquidity; the metagraph of subnet 2 cannot be read
DryChain ==
    [liquidity |->
        <<[netuid |-> 1,
           coldkey_positions |-> <<[coldkey |-> <<"ck", 1, "a">>, positions |-> <<Zero>>]>>],
          [netuid |-> 2,
           coldkey_positions |-> <<[coldkey |-> <<"ck", 2, "a">>, positions |-> <<>>]>>]>>,
     metagraphs |->
        [x \in {1} |->
            [ok |-> TRUE, uids |-> <<0>>, coldkeys |-> <<<<"ck", 1, "a">>>>]]]

Chains == {EmptyChain, SyntheticChain, SparseChain, DryChain}

\* netuid and block arguments of LiquidityFetcher.fetch_and_store
NetuidArgs == {None, Some(0), Some(1), Some(2)}
BlockArgs == {None, Some(7), Some(8)}

\* base_url arguments and environment values of VoteAPIClient(...)
TodoUrl == <<"T", "O", "D", "O">>
HttpUrl == <<"h", ":", "/", "/", "x">>
BaseUrlArgs ==
    {None, Some(<<>>), Some(TodoUrl), Some(<<"t", "o", "d", "o">>),
     Some(<<"T", "o", "d", "o", "/">>), Some(<<"t", "o", "d", "o", "/", "/">>),
     Some(<<"T", "O", "D", "O", "x">>), Some(HttpUrl), Some(HttpUrl \o <<"/">>)}
EnvValues == {None, Some(<<"t", "o", "d", "o", "/">>), Some(HttpUrl)}

\* wall-clock readings of datetime.now
Times == {1, 2}

\* an EpochValidatorNeuron after __init__, over the metagraph uids
NeuronOver(uids) ==
    [metagraph |-> uids, file |-> "neuron_validator", pc |-> "loop",
     epoch_len |-> None, epoch_start_block |-> None, epoch_end_block |-> None,
     epoch_index |-> None, epoch_tempo |-> None, target_head |-> None,
     wait_blk |-> None, step |-> 0, bootstrapped |-> FALSE,
     should_exit |-> FALSE, handed |-> None]

NewNeuron == NeuronOver(<<0, 1, 2>>)

\* the chain is followed up to this block
MaxBlock == 3

\* the chain is followed up to this block when only epoch heads are counted
MaxTickBlock == 4

\* answers of subtensor.tempo, get_current_block at block h, and
\* get_next_epoch_start_block
TempoAnswers == {RpcRaise, RpcOk(None), RpcOk(Some(0)), RpcOk(Some(2)), RpcOk(Some(3))}
BlockAnswers(h) == {RpcRaise, RpcOk(Some(h))}
NextAnswers ==
    {RpcRaise, RpcOk(None)} \cup
    {RpcOk(Some(n)) : n \in (0..(MaxBlock + 4)) \cup {DEFAULT_TEMPO, DEFAULT_TEMPO + 1}}

\* the answers the chain gives to the RPCs of one step at block h
RpcAnswers(h) ==
    [block : BlockAnswers(h), tempo : TempoAnswers,
     probe_block : BlockAnswers(h), next : NextAnswers]

\* the answers given to the scheduler at block h: a chain of tempo 2 whose
\* next epoch starts at the next multiple of 2, and whose RPCs may fail
SchedulerRpcAnswers(h) ==
    [block : BlockAnswers(h), tempo : {RpcRaise, RpcOk(Some(2))},
     probe_block : BlockAnswers(h),
     next : {RpcRaise, RpcOk(Some((h - (h % 2)) + 2))}]

\* a network for the default fetch: the source subnet lists coldkey ckA
\* twice; `answers` is what get_liquidity_list gives per (subnet, coldkey);
\* the query of ckB on subnet 1 fails
NetworkWith(get_subnets, subnet_count, scannable) ==
    [liquidity |-> <<>>,
     get_subnets |-> get_subnets,
     subnet_count |-> subnet_count,
     metagraphs |->
        [x \in scannable \cup {SOURCE_NETUID} |->
            IF x = SOURCE_NETUID
            THEN [ok |-> TRUE, uids |-> <<0, 1, 2, 3>>,
                  coldkeys |-> <<"ckA", "ckB", "ckA", "ckC">>]
            ELSE [ok |-> TRUE, uids |-> <<0, 1>>, coldkeys |-> <<"ckA", "ckB">>]],
     answers |->
        [p \in (0..2) \X {"ckA", "ckB", "ckC"} |->
            IF p = <<1, "ckB">> THEN RpcRaise
            ELSE IF p[2] = "ckA" THEN RpcOk(Some(<<Int2Rat(50), Int2Rat(50)>>))
            ELSE IF p[2] = "ckB" THEN RpcOk(Some(<<Zero>>))
            ELSE RpcOk(None)]]

Networks ==
    { NetworkWith(RpcOk(Some({0, 1, 2})), None, {0, 1, 2}),
      NetworkWith(RpcOk(Some({2, 1})), None, {1, 2}),
      NetworkWith(RpcRaise, Some(2), {0, 1}),
      NetworkWith(RpcRaise, None, {0, 1}) }

\* a network whose source subnet has no coldkeys
EmptySourceNetwork ==
    [NetworkWith(RpcOk(Some({1})), None, {1}) EXCEPT
        !.metagraphs[SOURCE_NETUID] = [ok |-> TRUE, uids |-> <<>>, coldkeys |-> <<>>]]

\* a network on which no coldkey holds liquidity
DryNetwork ==
    [NetworkWith(RpcOk(Some({0, 1})), None, {0, 1}) EXCEPT
        !.answers = [p \in (0..2) \X {"ckA", "ckB", "ckC"} |->
                        IF p[2] = "ckA" THEN RpcOk(Some(<<Zero>>)) ELSE RpcOk(None)]]

\* max_concurrency arguments, below the number of source coldkeys
MaxConcurrencyArgs == {1, 2}

\* no call of fetch_subnet_liquidity_positions is running
NoFetch == [pc |-> "idle"]

\* all lists over S of length at most n
ListsUpTo(S, n) == UNION {[1..k -> S] : k \in 0..n}

----------------------------------------------------------------------------
(* Initial states *)

NoCall == [op |-> "none"]

\* a fresh validator: empty tables, a StateCache with no attribute assigned
InitFresh ==
    /\ voteStore = <<>>
    /\ liqStore = <<>>
    /\ cache = [class |-> "StateCache"]
    /\ ckUidCache = EmptyDict
    /\ apiVotes = <<>>
    /\ chain = EmptyChain
    /\ neuron = NewNeuron
    /\ head = 0
    /\ fetch = NoFetch
    /\ client = DefaultClient
    /\ last = NoCall

\* a cache object holding any subnet_weights / liquidity and no latest_votes
InitRewardLiquidity ==
    /\ voteStore = <<>>
    /\ liqStore = <<>>
    /\ ckUidCache = EmptyDict
    /\ apiVotes = <<>>
    /\ chain = EmptyChain
    /\ neuron = NewNeuron
    /\ head = 0
    /\ fetch = NoFetch
    /\ client = DefaultClient
    /\ last = NoCall
    /\ \E sw \in SomeSubnetWeights, liq \in LiquidityMaps :
          cache = [subnet_weights |-> sw, liquidity |-> liq]

\* a cache object holding any list of latest votes
InitRewardVotes ==
    /\ voteStore = <<>>
    /\ liqStore = <<>>
    /\ ckUidCache = EmptyDict
    /\ apiVotes = <<>>
    /\ chain = EmptyChain
    /\ neuron = NewNeuron
    /\ head = 0
    /\ fetch = NoFetch
    /\ client = DefaultClient
    /\ last = NoCall
    /\ \E votes \in ListsUpTo(StakedVotes, MaxVotes),
          sw \in {[s \in {11} |-> One]},
          liq \in {[s \in Subnets |-> [u \in {1, 2} |-> Int2Rat(50 * (1 + ((u + s) % 2)))]]} :
          cache = [latest_votes |-> votes, subnet_weights |-> sw, liquidity |-> liq]

----------------------------------------------------------------------------
(* Actions *)

\* reward_calc.compute(metagraph=...)
Compute ==
    \E uids \in Metagraphs :
        LET r == RewardCalculator_compute(cache, uids)
        IN  /\ cache' = r.cache
            /\ last' = [op |-> "compute", uids |-> uids,
                        raised |-> r.raised, ret |-> r.ret]
            /\ UNCHANGED <<voteStore, liqStore, ckUidCache, apiVotes, chain, client, neuron, head, fetch>>

\* The vote API starts serving another list of votes.  Only fetches read the
\* payload, so the changes between two fetches are taken as one step.
ApiPublish ==
    /\ last.op = "vote" => last.votes = apiVotes
    /\ \E votes \in ListsUpTo(KeyedVotes, MaxVotes) : apiVotes' = votes
    /\ apiVotes' # apiVotes
    /\ UNCHANGED <<voteStore, liqStore, cache, ckUidCache, chain, last, client, neuron, head, fetch>>

\* VoteFetcher.fetch_and_store applied to every list of votes
InitVoteAgg ==
    /\ voteStore = <<>>
    /\ liqStore = <<>>
    /\ cache = [class |-> "StateCache"]
    /\ ckUidCache = EmptyDict
    /\ apiVotes \in ListsUpTo(WeightedVotes, MaxVotes)
    /\ chain = EmptyChain
    /\ neuron = NewNeuron
    /\ head = 0
    /\ fetch = NoFetch
    /\ client = DefaultClient
    /\ last = NoCall
NextVoteAgg == VoteFetch
SpecVoteAgg == InitVoteAgg /\ [][NextVoteAgg]_vars

\* repeated vote fetches against a changing API and the persistent table
NextVote == ApiPublish \/ VoteFetch
SpecVote == InitFresh /\ [][NextVote]_vars

\* LiquidityFetcher.fetch_and_store with any arguments
LiquidityFetch ==
    \E netuid \in NetuidArgs, block \in BlockArgs : LiquidityFetchCall(netuid, block)

\* the chain moves on to another liquidity state
ChainChange ==
    /\ chain' \in Chains \ {chain}
    /\ UNCHANGED <<voteStore, liqStore, cache, ckUidCache, apiVotes, last, client, neuron, head, fetch>>

\* repeated liquidity fetches against a changing chain
NextLiquidity == ChainChange \/ LiquidityFetch
SpecLiquidity == InitFresh /\ [][NextLiquidity]_vars

\* a client built from any arguments and environment, no call made yet
InitClient ==
    /\ voteStore = <<>>
    /\ liqStore = <<>>
    /\ cache = [class |-> "StateCache"]
    /\ ckUidCache = <<>>
    /\ apiVotes \in ListsUpTo(KeyedVotes, 1)
    /\ chain = EmptyChain
    /\ neuron = NewNeuron
    /\ head = 0
    /\ fetch = NoFetch
    /\ client \in {VoteAPIClient_init(b, e) : b \in BaseUrlArgs, e \in EnvValues}
    /\ last = NoCall

\* VoteAPIClient.get_latest_votes is called: its first attempt
GetLatestVotes ==
    /\ ~CallInProgress
    /\ \E outcome \in HttpOutcomes, now \in Times :
          last' = LatestVotesAttempt(1, outcome, now)
    /\ UNCHANGED <<voteStore, liqStore, cache, ckUidCache, apiVotes, chain, client, neuron, head, fetch>>

\* backoff re-invokes the body after its wait
RetryLatestVotes ==
    /\ CallInProgress
    /\ \E outcome \in HttpOutcomes, now \in Times :
          last' = LatestVotesAttempt(last.requests + 1, outcome, now)
    /\ UNCHANGED <<voteStore, liqStore, cache, ckUidCache, apiVotes, chain, client, neuron, head, fetch>>

NextClient == GetLatestVotes \/ RetryLatestVotes
SpecClient == InitClient /\ [][NextClient]_vars

\* a validator before its first tick, over any metagraph and served votes
InitForward ==
    /\ voteStore = <<>>
    /\ liqStore = <<>>
    /\ cache = [class |-> "StateCache"]
    /\ ckUidCache = EmptyDict
    /\ apiVotes \in ListsUpTo(KeyedVotes, MaxVotes)
    /\ chain \in {EmptyChain, SyntheticChain}
    /\ client \in {DefaultClient, VoteAPIClient_init(Some(TodoUrl), None)}
    /\ neuron \in {NeuronOver(uids) : uids \in Metagraphs}
    /\ head = 0
    /\ fetch = NoFetch
    /\ last = NoCall

\* forward(neuron), one epoch tick of the pipeline
Forward ==
    \E api_ok \in BOOLEAN, now \in Times :
        LET r == Forward_run(api_ok, now)
        IN  /\ voteStore' = r.table
            /\ cache' = r.cache
            /\ neuron' = [neuron EXCEPT !.handed = r.handed]
            /\ last' = [op |-> "forward", stages |-> r.stages, raised |-> r.raised]
            /\ UNCHANGED <<liqStore, ckUidCache, apiVotes, chain, client, head, fetch>>

NextForward == Forward
SpecForward == InitForward /\ [][NextForward]_vars

\* the chain produces a block
BlockAdvance ==
    /\ head < MaxBlock
    /\ head' = head + 1
    /\ UNCHANGED <<voteStore, liqStore, cache, ckUidCache, apiVotes, chain,
                   client, neuron, last, fetch>>

\* liquidity fetches of ticks at successive chain blocks
NextLiquidityTicks == BlockAdvance \/ ChainChange \/ LiquidityFetch
SpecLiquidityTicks == InitFresh /\ [][NextLiquidityTicks]_vars

\* EpochValidatorNeuron._discover_epoch_length at the current block
Discover ==
    \E rpc \in RpcAnswers(head) :
        LET r == EpochValidatorNeuron_discover_epoch_length(
                     rpc.tempo, rpc.probe_block, rpc.next)
        IN  /\ neuron' = IF r.raised THEN neuron
                         ELSE [neuron EXCEPT !.epoch_len = Some(r.length)]
            /\ last' = [op |-> "discover", tempo |-> rpc.tempo,
                        block |-> rpc.probe_block, next |-> rpc.next,
                        raised |-> r.raised, ret |-> r.length]
            /\ UNCHANGED <<voteStore, liqStore, cache, ckUidCache, apiVotes,
                           chain, client, head, fetch>>

\* epoch-length probes along the chain
NextEpochLength == BlockAdvance \/ Discover
SpecEpochLength == InitFresh /\ [][NextEpochLength]_vars

\* the scheduler starts from either entry point, with an API that has no
\* vote or one vote to give
InitScheduler ==
    /\ voteStore = <<>>
    /\ liqStore = <<>>
    /\ cache = [class |-> "StateCache"]
    /\ ckUidCache = EmptyDict
    /\ apiVotes \in {<<v>> : v \in {w \in KeyedVotes : w.voter_hotkey = "hkA" /\ w.block_height = 123}}
    /\ chain = EmptyChain
    /\ client = DefaultClient
    /\ neuron \in {[NewNeuron EXCEPT !.file = f] : f \in {"neuron_validator", "validator"}}
    /\ head = 0
    /\ fetch = NoFetch
    /\ last = NoCall

\* what became of the vote fetch of a run: forward is not called when sync
\* raised, and get_latest_votes raises when the API fails every attempt
VoteFetchOutcome(sync_ok, api_ok) ==
    IF ~sync_ok THEN "not_called"
    ELSE IF ~client.offline /\ ~api_ok THEN "raised"
    ELSE "returned"

\* an exception that leaves _loop: run catches KeyboardInterrupt only
Crashed(n) == [n EXCEPT !.pc = "crashed"]

\* bug variant: the loop goes from the snapshot straight to the wait
LoopTop_SkipsBootstrap ==
    /\ neuron.pc = "loop"
    /\ IF neuron.should_exit
       THEN neuron' = [neuron EXCEPT !.pc = "stopped"]
       ELSE \E rpc \in SchedulerRpcAnswers(head) :
               LET snap == EpochValidatorNeuron_epoch_snapshot(neuron, rpc)
               IN  neuron' =
                       IF snap.raised THEN Crashed(neuron)
                       ELSE [snap.neuron EXCEPT !.pc = "wait"]
    /\ UNCHANGED <<voteStore, liqStore, cache, ckUidCache, apiVotes, chain,
                   client, head, last, fetch>>

\* top of `while not self.should_exit` in _loop: the epoch snapshot, and
\* the epoch fields when the bootstrap run is still due
LoopTop ==
    /\ neuron.pc = "loop"
    /\ IF neuron.should_exit
       THEN neuron' = [neuron EXCEPT !.pc = "stopped"]
       ELSE \E rpc \in SchedulerRpcAnswers(head) :
               LET snap == EpochValidatorNeuron_epoch_snapshot(neuron, rpc)
               IN  neuron' =
                       IF snap.raised THEN Crashed(neuron)
                       ELSE IF ~neuron.bootstrapped
                       THEN [WithEpochFields(snap.neuron, snap) EXCEPT !.pc = "bootstrap"]
                       ELSE [snap.neuron EXCEPT !.pc = "wait"]
    /\ UNCHANGED <<voteStore, liqStore, cache, ckUidCache, apiVotes, chain,
                   client, head, last, fetch>>

\* the bootstrap branch of _loop: sync, then forward, once
Bootstrap ==
    /\ neuron.pc = "bootstrap"
    /\ \E sync_ok \in BOOLEAN, api_ok \in BOOLEAN,
          now \in IF client.offline THEN Times ELSE {1} :
          LET fwd == Forward_run(api_ok, now)
              r   == BootstrapRun(neuron.file, sync_ok, fwd)
          IN  /\ voteStore' = IF sync_ok THEN fwd.table ELSE voteStore
              /\ cache' = IF sync_ok THEN fwd.cache ELSE cache
              /\ neuron' = [neuron EXCEPT
                               !.handed = IF sync_ok THEN fwd.handed ELSE @,
                               !.bootstrapped = r.bootstrapped,
                               !.pc = "wait"]
              /\ last' = [op |-> "bootstrap", events |-> r.events,
                          step_before |-> neuron.step, blk |-> head,
                          vote_fetch |-> VoteFetchOutcome(sync_ok, api_ok)]
    /\ UNCHANGED <<liqStore, ckUidCache, apiVotes, chain, client, head, fetch>>

\* _wait_for_next_head up to its loop: the block read, the epoch length and
\* target_head
WaitBegin ==
    /\ neuron.pc = "wait"
    /\ \E rpc \in SchedulerRpcAnswers(head) :
          LET len == EpochLenOrDiscover(neuron, rpc)
          IN  neuron' =
                  IF rpc.block.raised \/ len.raised THEN Crashed(neuron)
                  ELSE [neuron EXCEPT
                           !.epoch_len = Some(len.length),
                           !.target_head =
                               Some(TargetHead(TheValue(rpc.block.value), len.length)),
                           !.wait_blk = None,
                           !.pc = "waiting"]
    /\ UNCHANGED <<voteStore, liqStore, cache, ckUidCache, apiVotes, chain,
                   client, head, last, fetch>>

\* one round of `while not self.should_exit` in _wait_for_next_head: the
\* wait returns when should_exit is set or when blk >= target_head, and
\* _loop goes on to the epoch head either way
WaitPoll ==
    /\ neuron.pc = "waiting"
    /\ IF neuron.should_exit
       THEN neuron' = [neuron EXCEPT !.pc = "head"]
       ELSE \E ans \in BlockAnswers(head) :
               neuron' =
                   IF ans.raised THEN Crashed(neuron)
                   ELSE IF TheValue(ans.value) >= TheValue(neuron.target_head)
                   THEN [neuron EXCEPT !.wait_blk = ans.value, !.pc = "head"]
                   ELSE [neuron EXCEPT !.wait_blk = ans.value]
    /\ UNCHANGED <<voteStore, liqStore, cache, ckUidCache, apiVotes, chain,
                   client, head, last, fetch>>

\* the new epoch head in _loop: forced re-probe, snapshot, epoch fields
EpochHead ==
    /\ neuron.pc = "head"
    /\ \E rpc \in SchedulerRpcAnswers(head) :
          LET reset == [neuron EXCEPT !.epoch_len = None]
              snap  == EpochValidatorNeuron_epoch_snapshot(reset, rpc)
          IN  neuron' =
                  IF snap.raised THEN Crashed(reset)
                  ELSE [WithEpochFields(snap.neuron, snap) EXCEPT !.pc = "business"]
    /\ UNCHANGED <<voteStore, liqStore, cache, ckUidCache, apiVotes, chain,
                   client, head, last, fetch>>

\* the business logic of the epoch head: try (sync, forward), except,
\* finally (sync, step += 1), and back to the top of the loop
Business ==
    /\ neuron.pc = "business"
    /\ \E sync_ok \in BOOLEAN, api_ok \in BOOLEAN, final_ok \in BOOLEAN,
          now \in IF client.offline THEN Times ELSE {1} :
          LET fwd == Forward_run(api_ok, now)
              r   == EpochTick(neuron.file, sync_ok, fwd, final_ok)
          IN  /\ voteStore' = IF sync_ok THEN fwd.table ELSE voteStore
              /\ cache' = IF sync_ok THEN fwd.cache ELSE cache
              /\ neuron' = [neuron EXCEPT
                               !.handed = IF sync_ok THEN fwd.handed ELSE @,
                               !.step = @ + r.step_inc,
                               !.pc = "loop"]
              /\ last' = [op |-> "tick", events |-> r.events,
                          step_before |-> neuron.step,
                          vote_fetch |-> VoteFetchOutcome(sync_ok, api_ok)]
    /\ UNCHANGED <<liqStore, ckUidCache, apiVotes, chain, client, head, fetch>>

\* should_exit is set from outside the loop
RequestExit ==
    /\ ~neuron.should_exit
    /\ neuron.pc \notin {"crashed", "stopped"}
    /\ neuron' = [neuron EXCEPT !.should_exit = TRUE]
    /\ UNCHANGED <<voteStore, liqStore, cache, ckUidCache, apiVotes, chain,
                   client, head, last, fetch>>

NextScheduler ==
    \/ BlockAdvance
    \/ LoopTop
    \/ Bootstrap
    \/ WaitBegin
    \/ WaitPoll
    \/ EpochHead
    \/ Business
    \/ RequestExit

\* EpochValidatorNeuron.run against a chain that produces blocks
SpecScheduler == InitScheduler /\ [][NextScheduler]_vars

\* neurons/neuron_validator.py started against an API that serves one vote
InitEpochTicks ==
    /\ voteStore = <<>>
    /\ liqStore = <<>>
    /\ cache = [class |-> "StateCache"]
    /\ ckUidCache = EmptyDict
    /\ apiVotes = <<[voter_hotkey |-> "hkA", block_height |-> 123,
                     voter_stake |-> One, weights |-> [s \in {1} |-> One]]>>
    /\ chain = EmptyChain
    /\ client = DefaultClient
    /\ neuron = NewNeuron
    /\ head = 0
    /\ fetch = NoFetch
    /\ last = NoCall

\* the chain produces a block
ChainBlock ==
    /\ head < MaxTickBlock
    /\ head' = head + 1
    /\ UNCHANGED <<voteStore, liqStore, cache, ckUidCache, apiVotes, chain,
                   client, neuron, last, fetch>>

\* EpochValidatorNeuron.run while should_exit stays unset
NextEpochTicks ==
    \/ ChainBlock
    \/ LoopTop
    \/ Bootstrap
    \/ WaitBegin
    \/ WaitPoll
    \/ EpochHead
    \/ Business
SpecEpochTicks == InitEpochTicks /\ [][NextEpochTicks]_vars

\* a fresh process in front of one of the networks
InitFanOut ==
    /\ voteStore = <<>>
    /\ liqStore = <<>>
    /\ cache = [class |-> "StateCache"]
    /\ ckUidCache = EmptyDict
    /\ apiVotes = <<>>
    /\ chain \in Networks \cup {EmptySourceNetwork}
    /\ client = DefaultClient
    /\ neuron = NewNeuron
    /\ head = 0
    /\ fetch = NoFetch
    /\ last = NoCall

\* fetch_subnet_liquidity_positions(subtensor, netuid, max_concurrency=...)
\* is called
FetchBegin ==
    /\ fetch.pc \in {"idle", "returned", "raised"}
    /\ \E netuid \in NetuidArgs, mc \in MaxConcurrencyArgs :
          fetch' = FetchStarted(chain, netuid, mc)
    /\ UNCHANGED <<voteStore, liqStore, cache, ckUidCache, apiVotes, chain,
                   client, neuron, head, last>>

\* one task of _query_single_ck passes `async with semaphore` and sends its
\* get_liquidity_list query
QueryStart ==
    /\ fetch.pc = "running"
    /\ fetch.idx <= Len(fetch.targets)
    /\ \E ck \in DOMAIN fetch.task :
          /\ fetch.task[ck] = "pending"
          /\ SemaphoreFree(fetch.value)
          /\ fetch' = [fetch EXCEPT
                          !.task[ck] = "in_flight",
                          !.value = @ - 1,
                          !.started = @ \cup {<<fetch.idx, ck>>}]
    /\ UNCHANGED <<voteStore, liqStore, cache, ckUidCache, apiVotes, chain,
                   client, neuron, head, last>>

\* the query of one task is answered or raises; the task returns its pair
\* and releases the semaphore
QueryEnd ==
    /\ fetch.pc = "running"
    /\ \E ck \in DOMAIN fetch.task :
          /\ fetch.task[ck] = "in_flight"
          /\ fetch' = [fetch EXCEPT
                          !.task[ck] = "done",
                          !.results[ck] =
                              QueryResult(chain.answers[<<fetch.targets[fetch.idx], ck>>]),
                          !.value = @ + 1,
                          !.finished = @ \cup {<<fetch.idx, ck>>}]
    /\ UNCHANGED <<voteStore, liqStore, cache, ckUidCache, apiVotes, chain,
                   client, neuron, head, last>>

\* asyncio.gather returns: the LiquiditySubnet of the target is appended
\* and the loop over the targets moves on
SubnetDone ==
    /\ fetch.pc = "running"
    /\ fetch.idx <= Len(fetch.targets)
    /\ \A ck \in DOMAIN fetch.task : fetch.task[ck] = "done"
    /\ fetch' = FreshTasks(
                    [fetch EXCEPT
                        !.liquidity_subnets =
                            Append(@, LiquiditySubnetOf(fetch.targets[fetch.idx],
                                                        fetch.src_coldkeys,
                                                        fetch.results)),
                        !.idx = @ + 1])
    /\ UNCHANGED <<voteStore, liqStore, cache, ckUidCache, apiVotes, chain,
                   client, neuron, head, last>>

\* the loop over the targets is over: return liquidity_subnets
FetchReturn ==
    /\ fetch.pc = "running"
    /\ fetch.idx > Len(fetch.targets)
    /\ fetch' = [fetch EXCEPT !.pc = "returned"]
    /\ UNCHANGED <<voteStore, liqStore, cache, ckUidCache, apiVotes, chain,
                   client, neuron, head, last>>

NextFanOut ==
    \/ FetchBegin
    \/ QueryStart
    \/ QueryEnd
    \/ SubnetDone
    \/ FetchReturn

\* the coldkey queries of fetch_subnet_liquidity_positions, interleaved
SpecFanOut == InitFanOut /\ [][NextFanOut]_vars

\* a fetcher built without fetch_fn, in front of one of the networks
InitLiquidityDefault ==
    /\ voteStore = <<>>
    /\ liqStore = <<>>
    /\ cache = [class |-> "StateCache"]
    /\ ckUidCache = EmptyDict
    /\ apiVotes = <<>>
    /\ chain \in Networks \cup {EmptySourceNetwork, DryNetwork}
    /\ client = DefaultClient
    /\ neuron = NewNeuron
    /\ head = 0
    /\ fetch = NoFetch
    /\ last = NoCall

\* LiquidityFetcher.fetch_and_store of a fetcher that uses _default_fetch
LiquidityFetchDefault ==
    \E netuid \in NetuidArgs, block \in BlockArgs :
        LiquidityFetchVia(LiquidityFetcher_default_fetch(chain, netuid), netuid, block)

\* the network changes between two fetches
NetworkChange ==
    /\ chain' \in (Networks \cup {EmptySourceNetwork, DryNetwork}) \ {chain}
    /\ UNCHANGED <<voteStore, liqStore, cache, ckUidCache, apiVotes, client,
                   neuron, head, fetch, last>>

NextLiquidityDefault == LiquidityFetchDefault \/ NetworkChange
SpecLiquidityDefault == InitLiquidityDefault /\ [][NextLiquidityDefault]_vars

\* RewardCalculator.compute applied to every cache content
InitReward == InitRewardLiquidity \/ InitRewardVotes
NextReward == Compute
SpecReward == InitReward /\ [][NextReward]_vars

\* objects VoteFetcher-like producers leave in cache.latest_votes: without
\* stake, with one subnet, with two subnets, with weights that sum to 0
MasterVotes ==
    { [voter_stake |-> Zero, weights |-> [s \in {10} |-> One]],
      [voter_stake |-> One, weights |-> [s \in {10} |-> One]],
      [voter_stake |-> Int2Rat(2), weights |-> [s \in Subnets |-> One]],
      [voter_stake |-> One, weights |-> [s \in {10} |-> Zero]] }

\* a StateCache before the first vote fetch, with or without published
\* subnet weights
InitMaster ==
    /\ voteStore = <<>>
    /\ liqStore = <<>>
    /\ ckUidCache = EmptyDict
    /\ apiVotes = <<>>
    /\ chain = EmptyChain
    /\ neuron = NewNeuron
    /\ head = 0
    /\ fetch = NoFetch
    /\ client = DefaultClient
    /\ last = NoCall
    /\ cache \in {[class |-> "StateCache"],
                  [class |-> "StateCache", subnet_weights |-> EmptyDict],
                  [class |-> "StateCache", subnet_weights |-> [s \in Subnets |-> Half]]}

\* self.cache.latest_votes = <list of objects>
SetLatestVotes ==
    \E votes \in ListsUpTo(MasterVotes, MaxVotes) :
        /\ cache' = SetAttr(cache, "latest_votes", votes)
        /\ last' = [op |-> "set_latest_votes", votes |-> votes]
        /\ UNCHANGED <<voteStore, liqStore, ckUidCache, apiVotes, chain, client, neuron, head, fetch>>

\* reward_calc._build_master_vector()
BuildMasterVector ==
    LET r == RewardCalculator_build_master_vector(cache)
    IN  /\ cache' = r.cache
        /\ last' = [op |-> "master", raised |-> r.raised, ret |-> r.ret]
        /\ UNCHANGED <<voteStore, liqStore, ckUidCache, apiVotes, chain, client, neuron, head, fetch>>

\* master vectors built over a cache whose latest_votes list is replaced
\* between the calls
NextMaster == SetLatestVotes \/ BuildMasterVector
SpecMaster == InitMaster /\ [][NextMaster]_vars

\* VoteSnapshot objects handed to persist_votes: weights keyed by integer
\* subnet ids, as VoteFetcher and the tests build them
StoreVoteSnapshots ==
    { [voter_hotkey |-> "hkA", block_height |-> 1,
       weights |-> [s \in VoteSubnets |-> Half]],
      [voter_hotkey |-> "hkB", block_height |-> 1,
       weights |-> [s \in {1} |-> One]],
      [voter_hotkey |-> "hkA", block_height |-> 2,
       weights |-> [s \in {2} |-> One]] }

\* LiquiditySnapshot objects handed to persist_liquidity
StoreLiquiditySnapshots ==
    { [wallet_hotkey |-> "ckA", subnet_id |-> 1,
       usd_value |-> Int2Rat(100), block_height |-> 1],
      [wallet_hotkey |-> "ckB", subnet_id |-> 1,
       usd_value |-> Int2Rat(250), block_height |-> 2] }

\* (block_height, voter_hotkey) arguments of votes_changed
VotesChangedArgs == {1, 2} \X {"hkA", "hkB"}

\* cache.persist_votes(snapshots)
PersistVotes ==
    \E snapshots \in ListsUpTo(StoreVoteSnapshots, 2) :
        /\ Len(voteStore) + Len(snapshots) <= MaxRows
        /\ voteStore' = StateCache_persist(voteStore, snapshots)
        /\ last' = [op |-> "persist_votes", snapshots |-> snapshots]
        /\ UNCHANGED <<liqStore, cache, ckUidCache, apiVotes, chain, client, neuron, head, fetch>>

\* cache.persist_liquidity(snapshots)
PersistLiquidity ==
    \E snapshots \in ListsUpTo(StoreLiquiditySnapshots, 2) :
        /\ Len(liqStore) + Len(snapshots) <= MaxRows
        /\ liqStore' = StateCache_persist(liqStore, snapshots)
        /\ last' = [op |-> "persist_liquidity", snapshots |-> snapshots]
        /\ UNCHANGED <<voteStore, cache, ckUidCache, apiVotes, chain, client, neuron, head, fetch>>

\* cache.latest_votes()
LatestVotes ==
    /\ last' = [op |-> "latest_votes", ret |-> StateCache_latest(voteStore)]
    /\ UNCHANGED <<voteStore, liqStore, cache, ckUidCache, apiVotes, chain, client, neuron, head, fetch>>

\* cache.latest_liquidity()
LatestLiquidity ==
    /\ last' = [op |-> "latest_liquidity", ret |-> StateCache_latest(liqStore)]
    /\ UNCHANGED <<voteStore, liqStore, cache, ckUidCache, apiVotes, chain, client, neuron, head, fetch>>

\* cache.votes_changed(block_height, voter_hotkey)
VotesChanged ==
    \E a \in VotesChangedArgs :
        /\ last' = [op |-> "votes_changed", block_height |-> a[1],
                    voter_hotkey |-> a[2],
                    ret |-> StateCache_votes_changed(voteStore, a[1], a[2])]
        /\ UNCHANGED <<voteStore, liqStore, cache, ckUidCache, apiVotes, chain, client, neuron, head, fetch>>

\* the public operations of a StateCache over empty tables, in any order
NextStore ==
    \/ PersistVotes
    \/ PersistLiquidity
    \/ LatestVotes
    \/ LatestLiquidity
    \/ VotesChanged
SpecStore == InitFresh /\ [][NextStore]_vars

----------------------------------------------------------------------------
(* Properties of RewardCalculator.compute, checked under SpecReward *)

\* compute leaves latest_votes, subnet_weights and liquidity as they were, so
\* after a call the master vector and the accumulator of that call are those
\* of the current cache
MasterOf(c) == RewardCalculator_build_master_vector(c).ret
LiquidityOf(c) == GetAttr(c, "liquidity", EmptyDict)
AccumulatorOf(c) == RewardAccumulator(MasterOf(c), LiquidityOf(c))

Computed == last.op = "compute" /\ ~last.raised

C2_UniformFallback ==
    (last.op = "compute" /\ last.uids # <<>>
        /\ SumValues(AccumulatorOf(cache)) = Zero) =>
        /\ ~last.raised
        /\ DOMAIN last.ret = Range(last.uids)
        /\ \A u \in DOMAIN last.ret : last.ret[u] = Rat(1, Len(last.uids))

C2_Witness ==
    /\ Computed
    /\ last.uids # <<>>
    /\ SumValues(AccumulatorOf(cache)) = Zero
    /\ DOMAIN MasterOf(cache) # {}
    /\ DOMAIN LiquidityOf(cache) # {}

\* dict d without key k
Without(d, k) == [x \in (DOMAIN d) \ {k} |-> d[x]]

\* sum(liquidity.get(s, {}).values())
TotalLp(liquidity, s) ==
    IF s \in DOMAIN liquidity THEN SumValues(liquidity[s]) ELSE Zero

\* C3: a subnet whose master weight is 0 or whose total liquidity is 0
\* contributes nothing: the result equals the one obtained with that subnet
\* absent from both the master vector and the liquidity map.
C3_ZeroSubnetContributesNothing ==
    last.op = "compute" =>
        \A s \in (DOMAIN MasterOf(cache)) \cup (DOMAIN LiquidityOf(cache)) :
            (\/ (s \in DOMAIN MasterOf(cache) /\ MasterOf(cache)[s] = Zero)
             \/ TotalLp(LiquidityOf(cache), s) = Zero) =>
                /\ ~last.raised
                /\ last.uids # <<>> =>
                     last.ret = NormaliseRewards(
                                   RewardAccumulator(Without(MasterOf(cache), s),
                                                     Without(LiquidityOf(cache), s)),
                                   last.uids)

C3_Witness ==
    /\ Computed
    /\ last.uids # <<>>
    /\ RPos(SumValues(AccumulatorOf(cache)))
    /\ \E s \in DOMAIN MasterOf(cache) :
          /\ RPos(MasterOf(cache)[s])
          /\ s \in DOMAIN LiquidityOf(cache)
          /\ DOMAIN LiquidityOf(cache)[s] # {}
          /\ TotalLp(LiquidityOf(cache), s) = Zero

\* A(u) of the claim: the sum over the subnets s with master[s] > 0 and
\* T_s > 0 of master[s] * liquidity[s][u] / T_s, positive amounts only
ClaimedShare(master, liquidity, u) ==
    LET S == {s \in (DOMAIN master) \cap (DOMAIN liquidity) :
                 /\ RPos(master[s])
                 /\ RPos(TotalLp(liquidity, s))
                 /\ u \in DOMAIN liquidity[s]
                 /\ RPos(liquidity[s][u])}
    IN  SumValues([s \in S |-> RDiv(RMul(master[s], liquidity[s][u]),
                                    TotalLp(liquidity, s))])

ClaimedTotal(master, liquidity) ==
    SumValues([u \in Uids |-> ClaimedShare(master, liquidity, u)])

RoundTripCache ==
    [subnet_weights |-> [s \in Subnets |-> Half],
     liquidity |->
        [s \in Subnets |->
            IF s = 10
            THEN [u \in Uids |-> IF u = 1 THEN Zero ELSE Int2Rat(100)]
            ELSE [u \in Uids |-> IF u = 0 THEN Zero ELSE Int2Rat(50)]]]

RoundTripRewards == [u \in Uids |-> IF u = 2 THEN Rat(1, 2) ELSE Rat(1, 4)]

\* C4: when the accumulator is positive the reward of uid u is
\* A(u) / sum_v A(v); the round-trip example (weights 1/2, 1/2 on subnets
\* 10 and 11) gives {0: 1/4, 1: 1/4, 2: 1/2}.
C4_RewardFormula ==
    (Computed /\ last.uids # <<>> /\ RPos(SumValues(AccumulatorOf(cache)))) =>
        /\ \A u \in Uids :
              IF u \in DOMAIN last.ret
              THEN last.ret[u] = RDiv(ClaimedShare(MasterOf(cache), LiquidityOf(cache), u),
                                      ClaimedTotal(MasterOf(cache), LiquidityOf(cache)))
              ELSE ClaimedShare(MasterOf(cache), LiquidityOf(cache), u) = Zero
        /\ DOMAIN last.ret \subseteq Uids
        /\ (cache = RoundTripCache /\ last.uids = <<0, 1, 2>>) =>
              last.ret = RoundTripRewards

C4_Witness ==
    /\ Computed
    /\ cache = RoundTripCache
    /\ last.uids = <<0, 1, 2>>
    /\ last.ret = RoundTripRewards

----------------------------------------------------------------------------
(* Properties of the ingestors *)

\* the rows of a table carry pairwise distinct keys
UniqueKeys(table, Key(_)) ==
    \A i, j \in 1..Len(table) : Key(table[i]) = Key(table[j]) => i = j

VoteKey(row) == <<row.voter_hotkey, row.block_height>>
LiquidityKey(row) == <<row.wallet_hotkey, row.subnet_id, row.block_height>>

\* C5: no two rows of vote_snapshots share (voter_hotkey, block_height) and
\* no two rows of liquidity_snapshots share (wallet_hotkey, subnet_id,
\* block_height), whatever lists the fetches returned.
C5_NaturalKeysUnique ==
    /\ UniqueKeys(voteStore, VoteKey)
    /\ UniqueKeys(liqStore, LiquidityKey)

\* the votes of a list carry pairwise distinct natural keys
DistinctVoteKeys(votes) == UniqueKeys(votes, VoteKey)

\* no vote of the list has its natural key in the table
NoneStored(table, votes) ==
    \A i \in 1..Len(votes), j \in 1..Len(table) : VoteKey(votes[i]) # VoteKey(table[j])

\* C6: a fetch of N votes with distinct natural keys, none stored before,
\* persists N rows; a second fetch of the same votes persists none, leaves
\* the table as it is and publishes the same subnet_weights.
C6_SecondFetchPersistsNothing ==
    [][ /\ (VoteFetch /\ DistinctVoteKeys(apiVotes) /\ NoneStored(voteStore, apiVotes)) =>
            /\ ~last'.raised
            /\ Len(last'.persisted) = Len(apiVotes)
            /\ Len(voteStore') = Len(voteStore) + Len(apiVotes)
        /\ (VoteFetch /\ last.op = "vote" /\ last.votes = apiVotes
              /\ DistinctVoteKeys(apiVotes)
              /\ Len(last.persisted) = Len(apiVotes)) =>
            /\ ~last'.raised
            /\ last'.persisted = <<>>
            /\ voteStore' = voteStore
            /\ Len(voteStore') >= Len(apiVotes)
            /\ last'.ret = last.ret
            /\ cache'.subnet_weights = cache.subnet_weights
      ]_vars

\* the same N > 1 votes have been fetched twice: all are stored, the second
\* fetch persisted nothing
C6_Witness ==
    /\ last.op = "vote"
    /\ Len(last.votes) > 1
    /\ DistinctVoteKeys(last.votes)
    /\ last.persisted = <<>>
    /\ Len(voteStore) = Len(last.votes)
    /\ \A i \in 1..Len(last.votes) :
          \E j \in 1..Len(voteStore) : VoteKey(voteStore[j]) = VoteKey(last.votes[i])
    /\ DOMAIN cache.subnet_weights # {}

\* list without its i-th element
RemoveAt(seq, i) == SubSeq(seq, 1, i - 1) \o SubSeq(seq, i + 1, Len(seq))

\* the number of (coldkey, subnet) pairs with a positive amount that
\* fetch_fn reports for the arguments
PositiveEntries(netuid) ==
    Len(SelectSeq(AggregatedEntries(FetchFn(chain, netuid)), LAMBDA e : RPos(e.tao)))

\* C7: a liquidity fetch at a fixed block with positive amounts returns one
\* new snapshot per coldkey and subnet on its first call (6 for two coldkeys
\* on each of three subnets); a second call with the same inputs returns an
\* empty list and the number of stored rows does not change.
C7_LiquidityFetchIdempotent ==
    [][\A netuid \in NetuidArgs \ {Some(0)}, block \in BlockArgs \ {None} :
        LiquidityFetchCall(netuid, block) =>
            /\ (liqStore = <<>> /\ PositiveEntries(netuid) > 0) =>
                  /\ ~last'.raised
                  /\ Len(last'.ret) = PositiveEntries(netuid)
                  /\ Len(liqStore') = PositiveEntries(netuid)
            /\ ( /\ last.op = "liquidity" /\ ~last.raised
                 /\ last.netuid = netuid /\ last.block = block
                 /\ Len(last.ret) = PositiveEntries(netuid) ) =>
                  /\ ~last'.raised
                  /\ last'.ret = <<>>
                  /\ Len(liqStore') = Len(liqStore)]_vars

\* C8: a vote with voter_stake = 0 contributes nothing: without it the
\* fetch publishes the same cache.subnet_weights and the reward calculator
\* builds the same master vector.
C8_ZeroStakeVoteContributesNothing ==
    (last.op = "vote" /\ ~last.raised) =>
        \A i \in 1..Len(last.votes) :
            last.votes[i].voter_stake = Zero =>
                /\ cache.subnet_weights =
                      NormaliseWeights(RawWeights(RemoveAt(last.votes, i)))
                /\ MasterOf([latest_votes |-> last.votes]) =
                      MasterOf([latest_votes |-> RemoveAt(last.votes, i)])

\* raw[s] of the claim: the sum over the votes of voter_stake * weights[s]
RECURSIVE ClaimedRaw(_, _, _)
ClaimedRaw(votes, sid, n) ==
    IF n = 0 THEN Zero
    ELSE IF sid \in DOMAIN votes[n].weights
         THEN RAdd(ClaimedRaw(votes, sid, n - 1),
                   RMul(votes[n].voter_stake, votes[n].weights[sid]))
         ELSE ClaimedRaw(votes, sid, n - 1)

ClaimedRawWeights(votes) ==
    [sid \in UNION {DOMAIN votes[i].weights : i \in 1..Len(votes)}
        |-> ClaimedRaw(votes, sid, Len(votes))]

\* C9: the published subnet_weights are raw[s] / sum(raw) with
\* raw[s] = sum over the votes of voter_stake * weights[s].
C9_StakeWeightedAggregation ==
    (last.op = "vote" /\ ~last.raised /\ last.votes # <<>>) =>
        LET raw == ClaimedRawWeights(last.votes)
        IN  IF RPos(SumValues(raw))
            THEN cache.subnet_weights =
                    [sid \in DOMAIN raw |-> RDiv(raw[sid], SumValues(raw))]
            ELSE cache.subnet_weights = EmptyDict

\* C10: after a completed fetch cache.subnet_weights is empty exactly when
\* the total raw mass is not positive, otherwise every value lies in [0, 1]
\* and the values sum to 1; the call returns cache.subnet_weights.
C10_SubnetWeightsNormalised ==
    (last.op = "vote" /\ ~last.raised) =>
        /\ last.ret = cache.subnet_weights
        /\ (DOMAIN cache.subnet_weights = {}) <=>
              ~RPos(SumValues(RawWeights(last.votes)))
        /\ DOMAIN cache.subnet_weights # {} =>
              /\ SumValues(cache.subnet_weights) = One
              /\ \A s \in DOMAIN cache.subnet_weights :
                    RLe(Zero, cache.subnet_weights[s]) /\ RLe(cache.subnet_weights[s], One)

----------------------------------------------------------------------------
(* Empty vote payload *)

\* C11: when the vote API returns an empty list the fetch returns the empty
\* mapping, sets cache.subnet_weights to {}, does not call persist_votes
\* and leaves the vote store unchanged.
C11_EmptyVoteListPublishesNothing ==
    [][(VoteFetch /\ apiVotes = <<>>) =>
          /\ ~last'.raised
          /\ last'.ret = EmptyDict
          /\ HasAttr(cache', "subnet_weights")
          /\ cache'.subnet_weights = EmptyDict
          /\ last'.persisted = <<>>
          /\ voteStore' = voteStore]_vars

\* an empty list has been fetched after an earlier fetch had stored rows
\* and published weights
C11_Witness ==
    /\ last.op = "vote"
    /\ last.votes = <<>>
    /\ voteStore # <<>>
    /\ HasAttr(cache, "latest_votes")
    /\ cache.subnet_weights = EmptyDict

----------------------------------------------------------------------------
(* Vote client *)

\* "TODO" in any letter case, followed by any number of slashes
IsTodoSpelling(str) ==
    /\ Len(str) >= 4
    /\ str[1] \in {"t", "T"} /\ str[2] \in {"o", "O"}
    /\ str[3] \in {"d", "D"} /\ str[4] \in {"o", "O"}
    /\ \A i \in 5..Len(str) : str[i] = "/"

\* the client was built with a base_url (or, without one, an environment
\* value) that spells the sentinel
BuiltWithSentinel ==
    \/ client.ctor.base_url # None /\ IsTodoSpelling(TheValue(client.ctor.base_url))
    \/ /\ client.ctor.base_url \in {None, Some(<<>>)}
       /\ client.ctor.env # None
       /\ IsTodoSpelling(TheValue(client.ctor.env))

\* the votes of two lists agree in hotkey, height, stake and weights
SameVotes(a, b) ==
    /\ Len(a) = Len(b)
    /\ \A i \in 1..Len(a) :
          /\ a[i].voter_hotkey = b[i].voter_hotkey
          /\ a[i].block_height = b[i].block_height
          /\ a[i].voter_stake = b[i].voter_stake
          /\ a[i].weights = b[i].weights

C13_NoInactiveSubnetInOfflineVotes ==
    (last.op = "get_latest_votes" /\ client.offline) =>
        \A i \in 1..Len(last.ret) :
            DOMAIN last.ret[i].weights \cap
                {15, 46, 67, 69, 74, 78, 82, 83, 95, 100,
                 101, 104, 110, 112, 115, 116, 117, 118, 119, 120} = {}

\* C14: a client built without a base_url while VOTE_API_ENDPOINT is unset
\* is offline: it has no HTTP client, makes no request and returns the
\* temporal votes.
C14_UnsetEndpointIsOffline ==
    (client.ctor.base_url = None /\ client.ctor.env = None) =>
        /\ client.offline
        /\ ~client.http_client
        /\ last.op = "get_latest_votes" =>
              /\ last.requests = 0
              /\ \E now \in Times : last.ret = VoteAPIClient_generate_temporal_votes(now)

\* C15: an online call issues at most 5 requests and another request only
\* after a transport error or a 5xx response; a 4xx response, a non-array
\* payload or an invalid element ends the call with an error at once; the
\* fifth failure is raised to the caller.
C15_RetryOnlyTransportAnd5xx ==
    (last.op = "get_latest_votes" /\ ~client.offline) =>
        /\ last.requests <= 5
        /\ ~last.done => last.outcome \in {"transport_error", "status_5xx"}
        /\ last.outcome \in {"status_4xx", "not_a_list", "invalid_item"} =>
              last.done /\ last.raised
        /\ (last.requests = 5 /\ last.outcome # "ok") => last.done /\ last.raised

----------------------------------------------------------------------------
(* Epoch tick *)

\* stage a occurs before stage b in the stages of the last forward
StageBefore(a, b) ==
    \E i, j \in 1..Len(last.stages) :
        i < j /\ last.stages[i] = a /\ last.stages[j] = b

\* C16: within a tick the stages are serial: the vote fetch has completed
\* before the liquidity fetch begins, the liquidity fetch has completed
\* (snapshots persisted, cache.liquidity published) before compute begins,
\* and compute has completed before update_scores.
C16_StagesStrictlySerial ==
    last.op = "forward" =>
        /\ "compute_begin" \in Range(last.stages) =>
              /\ StageBefore("vote_fetch_end", "liquidity_fetch_called")
              /\ StageBefore("liquidity_fetch_end", "compute_begin")
              /\ HasAttr(cache, "liquidity")
        /\ "update_scores" \in Range(last.stages) =>
              StageBefore("compute_end", "update_scores")

----------------------------------------------------------------------------
(* Epoch length *)

\* L = n - (h - h mod t) when that is t or t + 1, and t + 1 otherwise or
\* when h or n could not be read
ClaimedLength(t, block_ans, next_ans) ==
    IF block_ans.raised \/ next_ans.raised \/ next_ans.value = None
    THEN t + 1
    ELSE LET h == TheValue(block_ans.value)
             L == TheValue(next_ans.value) - (h - (h % t))
         IN  IF L = t \/ L = t + 1 THEN L ELSE t + 1

\* C19 as stated: for every tempo t the chain reports, the stored length
\* is n - (h - h mod t) when that is t or t + 1 and t + 1 otherwise, so it
\* is always t or t + 1.
C19_EpochLengthFromReportedTempo ==
    (last.op = "discover" /\ ~last.raised /\ last.tempo.value # None) =>
        LET t == TheValue(last.tempo.value)
        IN  /\ last.ret \in {t, t + 1}
            /\ neuron.epoch_len = Some(last.ret)
            /\ t > 0 => last.ret = ClaimedLength(t, last.block, last.next)

\* C19 (amended): the same with t the reported tempo, or 360 when the chain
\* reports no tempo or the tempo 0.
C19_EpochLengthFromEffectiveTempo ==
    (last.op = "discover" /\ ~last.raised) =>
        LET t == IF last.tempo.value = None \/ last.tempo.value = Some(0)
                 THEN 360 ELSE TheValue(last.tempo.value)
        IN  /\ last.ret \in {t, t + 1}
            /\ neuron.epoch_len = Some(last.ret)
            /\ last.ret = ClaimedLength(t, last.block, last.next)

\* a probe at block 1 with tempo 2 and next epoch start 2 stored length 2
C19_Witness ==
    /\ last.op = "discover"
    /\ last.tempo = RpcOk(Some(2))
    /\ last.block = RpcOk(Some(1))
    /\ last.next = RpcOk(Some(2))
    /\ neuron.epoch_len = Some(2)

----------------------------------------------------------------------------
(* Scheduler loop *)

\* C17: no operational failure ends the main loop: an exception raised by
\* sync, by forward or by a chain RPC of the epoch snapshot or of the wait
\* is caught, so the loop is never left through an exception.
C17_NoOperationalFailureEndsLoop == neuron.pc # "crashed"

\* the number of attempts of the closing sync among the events of a tick
RECURSIVE FinalSyncs(_)
FinalSyncs(events) ==
    IF events = <<>> THEN 0
    ELSE (IF Head(events) \in {"final_sync", "final_sync_raised"} THEN 1 ELSE 0)
         + FinalSyncs(Tail(events))

\* C18: in every epoch-head tick, whether sync and forward succeeded or
\* raised, the final sync is attempted exactly once, after them; whether it
\* raises or not the loop is not left, and step grows by exactly 1.
C18_FinalSyncOnceThenStep ==
    [][(neuron.pc = "business" /\ neuron'.pc # "business") =>
          /\ last'.op = "tick"
          /\ FinalSyncs(last'.events) = 1
          /\ last'.events[Len(last'.events)] \in {"final_sync", "final_sync_raised"}
          /\ neuron'.pc = "loop"
          /\ neuron'.step = neuron.step + 1]_vars

\* a tick whose forward raised and whose final sync raised too, counted
C18_Witness ==
    /\ last.op = "tick"
    /\ \E i \in 1..Len(last.events) : last.events[i] = "forward_raised"
    /\ last.events[Len(last.events)] = "final_sync_raised"
    /\ neuron.pc = "loop"
    /\ neuron.step = last.step_before + 1

\* C20: the epoch-head step is entered only after a current-block reading
\* blk of the wait with blk >= target, never while the chain is below target.
C20_HeadOnlyAtTarget ==
    neuron.pc = "head" =>
        /\ neuron.wait_blk # None
        /\ TheValue(neuron.wait_blk) >= TheValue(neuron.target_head)

\* C21: on start the pipeline runs once immediately, at whatever position
\* of the epoch the chain is: the first snapshot leads to the bootstrap run,
\* and the first wait for the next head begins only out of that run, whether
\* it returned or failed.
C21_BootstrapBeforeFirstWait ==
    [][/\ (neuron.pc = "loop" /\ ~neuron.bootstrapped
              /\ neuron'.pc \notin {"loop", "crashed", "stopped"})
          => neuron'.pc = "bootstrap"
       /\ (neuron.target_head = None /\ neuron.pc # "wait" /\ neuron'.pc = "wait")
          => (neuron.pc = "bootstrap" /\ last'.op = "bootstrap")
       /\ (neuron.target_head = None /\ neuron'.target_head # None)
          => last.op = "bootstrap"]_vars

\* a bootstrap run that failed at block 1, inside the epoch that began at
\* block 0, with the first wait about to begin
C21_Witness ==
    /\ last.op = "bootstrap"
    /\ last.blk = 1
    /\ TryRaised(last.events)
    /\ neuron.epoch_start_block = Some(0)
    /\ neuron.pc = "wait"
    /\ neuron.target_head = None

\* should_exit is set and the wait for the next head has read no block at
\* or above its target
ExitDuringWait ==
    /\ neuron.should_exit
    /\ neuron.pc \in {"waiting", "head", "business"}
    /\ \/ neuron.wait_blk = None
       \/ TheValue(neuron.wait_blk) < TheValue(neuron.target_head)

\* C22: once should_exit is set during the wait, the scheduler starts no
\* further pipeline run: the wait returns and the loop ends without
\* re-probing the epoch length and without invoking sync or forward again.
C22_NoRunAfterExit ==
    [][ExitDuringWait =>
          /\ ~(neuron.pc = "head" /\ neuron'.pc # "head")
          /\ last' = last
          /\ neuron'.step = neuron.step]_vars

----------------------------------------------------------------------------
(* Liquidity fan-out *)

\* C23: in every interleaving of the coldkey query tasks at most
\* max_concurrency liquidity queries are in flight, and no query for a
\* target subnet starts before every query of the earlier targets finished.
C23_BoundedFanOutSequentialSubnets ==
    fetch.pc = "running" =>
        /\ Cardinality(InFlight(fetch)) <= fetch.max_concurrency
        /\ \A p \in fetch.started :
              \A i \in 1..(p[1] - 1), ck \in Range(fetch.src_coldkeys) :
                  <<i, ck>> \in fetch.finished

\* the pool is full on the second target while a third coldkey waits
C23_Witness ==
    /\ fetch.pc = "running"
    /\ fetch.idx = 2
    /\ Cardinality(InFlight(fetch)) = 2
    /\ fetch.max_concurrency = 2
    /\ \E ck \in DOMAIN fetch.task : fetch.task[ck] = "pending"

\* C24: when the query of one coldkey on one subnet raises, the
\* LiquiditySubnet of that subnet still has an entry for every source
\* coldkey, the failing one mapped to the empty list and every other one to
\* its own result, and the remaining targets are still queried.
C24_FailedQueryYieldsEmptyEntry ==
    fetch.pc \in {"running", "returned"} =>
        LET src == {ck : ck \in Range(chain.metagraphs[SOURCE_NETUID].coldkeys)}
            out == fetch.liquidity_subnets
        IN  /\ fetch.pc = "returned" => Len(out) = Len(fetch.targets)
            /\ \A i \in 1..Len(out) :
                  /\ out[i].netuid = fetch.targets[i]
                  /\ {e.coldkey : e \in Range(out[i].coldkey_positions)} = src
                  /\ Len(out[i].coldkey_positions) = Cardinality(src)
                  /\ \A e \in Range(out[i].coldkey_positions) :
                        LET ans == chain.answers[<<out[i].netuid, e.coldkey>>]
                        IN  e.positions =
                                IF ans.raised \/ ans.value = None THEN <<>>
                                ELSE TheValue(ans.value)

\* a fetch over subnets 0, 1, 2 has returned: on subnet 1 the query of ckB
\* raised and ckA kept its two positions, and subnet 2 was still queried
C24_Witness ==
    /\ fetch.pc = "returned"
    /\ fetch.targets = <<0, 1, 2>>
    /\ chain.answers[<<1, "ckB">>].raised
    /\ Len(fetch.liquidity_subnets) = 3
    /\ fetch.liquidity_subnets[2].coldkey_positions =
          << [coldkey |-> "ckA", positions |-> <<Int2Rat(50), Int2Rat(50)>>],
             [coldkey |-> "ckB", positions |-> <<>>],
             [coldkey |-> "ckC", positions |-> <<>>] >>
    /\ <<3, "ckA">> \in fetch.finished

----------------------------------------------------------------------------
(* Subnet selection of the liquidity fetch *)

\* C25: no invocation of LiquidityFetcher.fetch_and_store, with netuid
\* given or omitted, queries the chain for subnet 0, persists a snapshot for
\* it or publishes a cache.liquidity entry for it.
C25_SubnetZeroNeverTouched ==
    /\ last.op = "liquidity" => 0 \notin Range(last.queried)
    /\ \A i \in 1..Len(liqStore) : liqStore[i].subnet_id # 0
    /\ HasAttr(cache, "liquidity") => 0 \notin DOMAIN cache.liquidity

\* C26: the subnets fetch_and_store queries are members of ACTIVE_SUBNETS:
\* a netuid outside ACTIVE_SUBNETS gives the empty list without a query or
\* a write, and an omitted netuid queries exactly the ACTIVE_SUBNETS in
\* ascending order.
C26_OnlyActiveSubnetsQueried ==
    last.op = "liquidity" =>
        /\ Range(last.queried) \subseteq ACTIVE_SUBNETS
        /\ (last.netuid # None /\ TheValue(last.netuid) \notin ACTIVE_SUBNETS)
              => (~last.raised /\ last.ret = <<>> /\ last.queried = <<>>)
        /\ last.netuid = None => last.queried = Sorted(ACTIVE_SUBNETS)

----------------------------------------------------------------------------
(* Published liquidity map *)

\* liquidity[subnet][uid] = sum of the positions, for every fetched subnet
\* and every coldkey whose positions sum to more than 0 and which the
\* metagraph of the subnet lists with a uid
ClaimedLiquidity(ch, netuid) ==
    LET subnets == FetchFn(ch, netuid)
        UidOf(s, ck) ==
            LET mg == GetMetagraph(ch, s)
                at == {k \in 1..Len(mg.uids) :
                          k <= Len(mg.coldkeys) /\ mg.coldkeys[k] = ck}
            IN  IF ~mg.ok \/ at = {} THEN None
                ELSE Some(mg.uids[CHOOSE k \in at : \A m \in at : m <= k])
        T == UNION {{<<subnets[i].netuid,
                       UidOf(subnets[i].netuid, subnets[i].coldkey_positions[j].coldkey),
                       TaoTotal(subnets[i].coldkey_positions[j].positions)>> :
                        j \in 1..Len(subnets[i].coldkey_positions)} :
                    i \in 1..Len(subnets)}
        Q == {t \in T : t[2] # None /\ RPos(t[3])}
    IN  [s \in {t[1] : t \in Q} |->
            [u \in {TheValue(t[2]) : t \in {q \in Q : q[1] = s}} |->
                (CHOOSE t \in Q : t[1] = s /\ t[2] = Some(u))[3]]]

\* C27: after fetch_and_store, cache.liquidity holds exactly the entries
\* liquidity[subnet][uid] = sum for the coldkeys with a positive sum and a
\* uid on the subnet, and no snapshot is persisted for a sum <= 0.
C27_LiquidityMapPublished ==
    [][((last' # last \/ cache' # cache \/ liqStore' # liqStore)
            /\ last'.op = "liquidity" /\ last'.netuid # Some(0)) =>
          /\ ~last'.raised
          /\ HasAttr(cache', "liquidity")
          /\ cache'.liquidity = ClaimedLiquidity(chain, last'.netuid)
          /\ \A i \in 1..Len(last'.ret) : RPos(last'.ret[i].tao_value)]_vars

----------------------------------------------------------------------------
(* Properties of the StateCache queries, checked under SpecStore *)

\* the rows are in (block_height, id) descending order
LatestOrdered(ret) ==
    \A i, j \in 1..Len(ret) :
        i < j => \/ ret[i].block_height > ret[j].block_height
                 \/ /\ ret[i].block_height = ret[j].block_height
                    /\ ret[i].id > ret[j].id

\* every row of the table is returned exactly once
LatestExactlyOnce(ret, table) ==
    /\ Len(ret) = Len(table)
    /\ \A k \in 1..Len(table) :
          Cardinality({i \in 1..Len(ret) : ret[i].id = k}) = 1

\* the persisted snapshot a returned row stands for
PersistedAs(row, table) == table[row.id]

\* the columns other than weights carry the persisted values
ScalarsKept(row, snap) ==
    /\ DOMAIN row = DOMAIN snap
    /\ \A a \in DOMAIN snap \ {"weights"} : row[a] = snap[a]

\* C28 (as stated): latest_votes() and latest_liquidity() return every
\* persisted row exactly once, each with the field values it was persisted
\* with, ordered by block_height descending and then id descending.
C28_LatestReturnsPersistedRows ==
    last.op \in {"latest_votes", "latest_liquidity"} =>
        LET table == IF last.op = "latest_votes" THEN voteStore ELSE liqStore
        IN  /\ LatestExactlyOnce(last.ret, table)
            /\ LatestOrdered(last.ret)
            /\ \A i \in 1..Len(last.ret) :
                  last.ret[i] = PersistedAs(last.ret[i], table)

\* C28 (amended): latest_votes() and latest_liquidity() return every
\* persisted row exactly once, ordered by block_height descending and then
\* id descending; every column but weights carries the persisted value, and
\* weights carries the persisted values under the string form of their keys.
C28_LatestReturnsSerialisedRows ==
    last.op \in {"latest_votes", "latest_liquidity"} =>
        LET table == IF last.op = "latest_votes" THEN voteStore ELSE liqStore
        IN  /\ LatestExactlyOnce(last.ret, table)
            /\ LatestOrdered(last.ret)
            /\ \A i \in 1..Len(last.ret) :
                  LET row  == last.ret[i]
                      snap == PersistedAs(row, table)
                  IN  /\ ScalarsKept(row, snap)
                      /\ HasAttr(snap, "weights") =>
                            /\ DOMAIN row.weights =
                                  {PyStr(k) : k \in DOMAIN snap.weights}
                            /\ \A k \in DOMAIN snap.weights :
                                  row.weights[PyStr(k)] = snap.weights[k]

\* three vote rows, two of one block height, returned out of insertion order
C28_Witness ==
    /\ last.op = "latest_votes"
    /\ Len(last.ret) = 3
    /\ last.ret[1].id = 2
    /\ last.ret[2].block_height = last.ret[3].block_height
    /\ last.ret[2].id = 3
    /\ Len(liqStore) > 0

\* C29: votes_changed(block_height, voter_hotkey) answers true exactly when
\* no stored vote snapshot has that voter_hotkey and that block_height, and
\* the call leaves both tables as they were.
C29_VotesChangedIffUnseen ==
    [][last'.op = "votes_changed" =>
          /\ voteStore' = voteStore
          /\ liqStore' = liqStore
          /\ last'.ret <=>
                ~\E i \in 1..Len(voteStore') :
                    /\ voteStore'[i].voter_hotkey = last'.voter_hotkey
                    /\ voteStore'[i].block_height = last'.block_height]_vars

\* the pair is reported as seen while the same voter also has a row at
\* another block height
C29_Witness ==
    /\ last.op = "votes_changed"
    /\ ~last.ret
    /\ \E i \in 1..Len(voteStore) :
          /\ voteStore[i].voter_hotkey = last.voter_hotkey
          /\ voteStore[i].block_height # last.block_height

----------------------------------------------------------------------------
(* Properties of RewardCalculator._build_master_vector, checked under SpecMaster *)

\* the votes with stake > 0 whose weights sum to more than 0
QualifyingVotes(votes) ==
    {i \in 1..Len(votes) :
        /\ RPos(votes[i].voter_stake)
        /\ RPos(SumValues(votes[i].weights))}

\* the stake-weighted mean of the normalised weight vectors
ClaimedMaster(votes) ==
    LET Q == QualifyingVotes(votes)
        stakes == SumValues([i \in Q |-> votes[i].voter_stake])
        Part(i, sid) ==
            IF sid \in DOMAIN votes[i].weights
            THEN RDiv(RMul(votes[i].voter_stake, votes[i].weights[sid]),
                      SumValues(votes[i].weights))
            ELSE Zero
    IN  [sid \in UNION {DOMAIN votes[i].weights : i \in Q} |->
            RDiv(SumValues([i \in Q |-> Part(i, sid)]), stakes)]

\* C30: over a non-empty cache.latest_votes the call returns the
\* stake-weighted mean of the normalised weight vectors of the qualifying
\* votes, which sums to 1 when a vote qualifies, and cache.master_subnet_weights
\* is that vector afterwards; over an empty list it returns
\* cache.subnet_weights and leaves the cache as it was.
C30_MasterVectorPublished ==
    [][(last'.op = "master" /\ ~LatestVotesIsMethod(cache)) =>
          LET votes == GetAttr(cache, "latest_votes", <<>>)
          IN  /\ ~last'.raised
              /\ votes # <<>> =>
                    /\ last'.ret = ClaimedMaster(votes)
                    /\ QualifyingVotes(votes) # {} => SumValues(last'.ret) = One
                    /\ HasAttr(cache', "master_subnet_weights")
                    /\ cache'.master_subnet_weights = last'.ret
              /\ votes = <<>> =>
                    /\ last'.ret = GetAttr(cache, "subnet_weights", EmptyDict)
                    /\ cache' = cache]_vars

----------------------------------------------------------------------------
(* Properties of a tick's data flow *)

\* C31: after a VoteFetcher.fetch_and_store that returned (also one whose
\* fetch gave no votes), cache.latest_votes is the list of snapshots that
\* call persisted, so a later reader sees no list of an earlier call.
C31_LatestVotesOfThisCall ==
    (last.op = "vote" /\ ~last.raised) =>
        /\ HasAttr(cache, "latest_votes")
        /\ cache.latest_votes = last.persisted

\* C32: compute returns one reward weight for every uid of metagraph.uids
\* and for no other uid, whatever the cache holds.
C32_RewardKeysAreMetagraphUids ==
    (last.op = "compute" /\ ~last.raised) =>
        DOMAIN last.ret = Range(last.uids)

----------------------------------------------------------------------------
(* Properties of the bootstrap branch, checked under SpecScheduler *)

\* the try block of a run raised
RunFailed(events) ==
    \E i \in 1..Len(events) : events[i] \in {"sync_raised", "forward_raised"}

\* C33: in neurons/neuron_validator.py the flag is set only by a bootstrap
\* run in which neither sync nor forward raised; a failed bootstrap sleeps
\* and goes on inside the loop with the flag unset; every later loop
\* iteration with the flag unset enters the bootstrap branch again; with
\* the flag set the branch is never entered.
C33_BootstrapFlagOnlyAfterSuccess ==
    [][neuron.file = "neuron_validator" =>
          /\ (~neuron.bootstrapped /\ neuron'.bootstrapped) =>
                /\ neuron.pc = "bootstrap"
                /\ last'.op = "bootstrap"
                /\ last'.events = <<"sync", "forward">>
          /\ (neuron.pc = "bootstrap" /\ neuron'.pc # "bootstrap"
                 /\ RunFailed(last'.events)) =>
                /\ last'.events[Len(last'.events)] = "sleep"
                /\ ~neuron'.bootstrapped
                /\ neuron'.pc = "wait"
          /\ (neuron.pc = "loop" /\ ~neuron.bootstrapped
                 /\ neuron'.pc \notin {"loop", "crashed", "stopped"}) =>
                neuron'.pc = "bootstrap"
          /\ neuron.bootstrapped =>
                neuron'.bootstrapped /\ neuron'.pc # "bootstrap"]_vars

\* a bootstrap that succeeds after an epoch tick, hence after an earlier
\* bootstrap that failed
C33_Witness ==
    /\ neuron.file = "neuron_validator"
    /\ last.op = "bootstrap"
    /\ neuron.bootstrapped
    /\ neuron.step >= 1

----------------------------------------------------------------------------
(* Properties of the epoch heads, checked under SpecEpochTicks *)

\* C34: the epoch_index recorded at an epoch head is strictly greater than
\* the one recorded at the previous epoch head, whatever blocks the chain
\* produces and whatever lengths in {t, t+1} the probes return.
C34_EpochIndexStrictlyIncreases ==
    [][(neuron.pc = "head" /\ neuron'.pc = "business" /\ last.op = "tick") =>
          TheValue(neuron'.epoch_index) > TheValue(neuron.epoch_index)]_vars

----------------------------------------------------------------------------
(* Properties of the uid cache, checked under SpecLiquidity *)

\* the (coldkey, subnet) pairs of fetched liquidity results
FetchedPairs(subnets) ==
    UNION {{<<subnets[i].coldkey_positions[j].coldkey, subnets[i].netuid>> :
               j \in 1..Len(subnets[i].coldkey_positions)} :
           i \in 1..Len(subnets)}

\* C35: after _populate_uid_cache every (coldkey, subnet) pair of the
\* freshly fetched results is a key of the uid cache, and no call removes
\* or changes an entry that is present.
C35_UidCacheCoversFetchedPairs ==
    [][/\ \A p \in DOMAIN ckUidCache :
             p \in DOMAIN ckUidCache' /\ ckUidCache'[p] = ckUidCache[p]
       /\ (chain' = chain /\ last'.op = "liquidity" /\ last'.netuid # Some(0)) =>
             FetchedPairs(FetchFn(chain, last'.netuid)) \subseteq DOMAIN ckUidCache']_vars

----------------------------------------------------------------------------
(* Properties of a tick whose vote fetch fails, checked under SpecScheduler *)

\* C36: when get_latest_votes raises, the run leaves the cache and the vote
\* store as they were, forward stops at the vote fetch (the run fails and
\* nothing is handed to update_scores), and the loop goes on towards the
\* wait for the next epoch head.
C36_VoteFetchFailureEndsTickOnly ==
    [][(neuron.pc \in {"bootstrap", "business"} /\ neuron'.pc # neuron.pc
          /\ last'.vote_fetch = "raised") =>
          /\ voteStore' = voteStore
          /\ cache' = cache
          /\ RunFailed(last'.events)
          /\ neuron'.handed = None
          /\ neuron'.pc = IF neuron.pc = "bootstrap" THEN "wait" ELSE "loop"]_vars

\* the wait that follows an epoch tick whose vote fetch raised
C36_Witness ==
    /\ last.op = "tick"
    /\ last.vote_fetch = "raised"
    /\ neuron.pc = "waiting"

----------------------------------------------------------------------------
(* Properties of the votes a tick persists, checked under SpecVote *)

\* the fetched votes whose (voter_hotkey, block_height) is not in the table
UnseenVotes(table, votes) ==
    SelectSeq(votes, LAMBDA v :
        StateCache_votes_changed(table, v.block_height, v.voter_hotkey))

\* a snapshot that carries the four fields of its vote
SnapshotOf(v) ==
    [voter_hotkey |-> v.voter_hotkey, block_height |-> v.block_height,
     voter_stake |-> v.voter_stake, weights |-> v.weights]

\* C37: fetch_and_store persists one VoteSnapshot per fetched vote whose key
\* was not stored, carrying voter_hotkey, block_height, voter_stake and the
\* weights map; when one of them has stake > 0 and a positive weight sum, the
\* master vector built from cache.latest_votes after the call is non-empty
\* and is the stake-weighted mean of those votes' normalised weights.
C37_PersistedVotesCarryStake ==
    [][(apiVotes' = apiVotes /\ last'.op = "vote" /\ ~last'.raised) =>
          LET unseen == UnseenVotes(voteStore, apiVotes)
              master == RewardCalculator_build_master_vector(cache')
          IN  /\ last'.persisted = [i \in 1..Len(unseen) |-> SnapshotOf(unseen[i])]
              /\ QualifyingVotes(unseen) # {} =>
                    /\ ~master.raised
                    /\ master.ret # EmptyDict
                    /\ master.ret = ClaimedMaster(unseen)]_vars

----------------------------------------------------------------------------
(* Properties of the block height of liquidity rows, checked under
   SpecLiquidityTicks *)

\* C38: a fetch_and_store that reads liquidity at a chain block (the block
\* argument, or the current block when it is omitted) completes, every row
\* it persists has that block as block_height, and every coldkey with
\* positive liquidity has a row of that block afterwards.
C38_SnapshotAtBlockRead ==
    [][(head' = head /\ chain' = chain /\ last'.op = "liquidity"
          /\ last'.netuid # Some(0)) =>
          LET read    == IF last'.block = None THEN head ELSE TheValue(last'.block)
              entries == AggregatedEntries(FetchFn(chain, last'.netuid))
          IN  /\ ~last'.raised
              /\ \A i \in (Len(liqStore) + 1)..Len(liqStore') :
                    liqStore'[i].block_height = read
              /\ \A k \in 1..Len(entries) :
                    RPos(entries[k].tao) =>
                        LiquidityFetcher_exists(liqStore', entries[k].ck,
                                                entries[k].subnet, read)]_vars

----------------------------------------------------------------------------
(* Properties of the arrays forward hands to update_scores, checked under
   SpecForward *)

\* the reward mapping of the tick that just ran: compute over the cache the
\* tick left gives the mapping again (master_subnet_weights is all it wrote)
TickRewards == RewardCalculator_compute(cache, neuron.metagraph).ret

\* C39: after a tick that reached update_scores, the score array has one
\* entry per uid of the metagraph, entry i is the normalised reward of
\* metagraph.uids[i] (0 when that uid has none), no entry is negative and
\* the entries sum to 1.
C39_ScoresAlignedWithUids ==
    (last.op = "forward" /\ ~last.raised) =>
        /\ neuron.handed # None
        /\ LET h == TheValue(neuron.handed)
           IN  /\ h.uids = neuron.metagraph
               /\ Len(h.scores) = Len(h.uids)
               /\ \A i \in 1..Len(h.uids) :
                     /\ h.scores[i] = IF h.uids[i] \in DOMAIN TickRewards
                                       THEN TickRewards[h.uids[i]] ELSE Zero
                     /\ ~RLt(h.scores[i], Zero)
               /\ SumSeq(h.scores) = One

\* C40: over an empty metagraph.uids a tick whose reward computation
\* returned goes on to update_scores without raising and hands it an empty
\* score array.
C40_EmptyMetagraphCompletes ==
    (last.op = "forward" /\ neuron.metagraph = <<>>
        /\ "compute_end" \in Range(last.stages)) =>
        /\ ~last.raised
        /\ "update_scores" \in Range(last.stages)
        /\ neuron.handed = Some([scores |-> <<>>, uids |-> <<>>])

====
